---- MODULE Spec2Model ----
(***************************************************************************)
(* Subscription reconciliation of the resume backend: the user record      *)
(* store, the Stripe webhook handlers of the payment controller, and the   *)
(* read paths that lazily downgrade expired plans.                         *)
(*                                                                         *)
(* Dates are integers (one unit = one billing month); identifiers of       *)
(* users, customers, subscriptions and e-mail addresses are positive       *)
(* integers.  Null (0) stands for JavaScript null/undefined in a numeric   *)
(* or identifier field, NoStr ("") for an absent string.                   *)
(*                                                                         *)
(* oauth is one browser session's GET /auth/google requests with the       *)
(* session store behind them; server is the start of the HTTP server with  *)
(* the .env file it rewrites.                                              *)
(***************************************************************************)
EXTENDS Integers, FiniteSets, Sequences, TLC

VARIABLES users, resumes, now, last, pending, scenario, oauth, server

vars == <<users, resumes, now, last, pending, scenario, oauth, server>>

----------------------------------------------------------------------------
(* Bounds and domains *)

MaxNow == 3

MaxResumes == 4

FreePlanLimit == 3

Null == 0

NoStr == ""

MonthLen == 1

UserIds == {1, 2}

SubIds == {1, 2}

PeriodEnds == 1..(MaxNow + 1)

PaidPlans == {"pro", "business"}

Plans == {"free"} \cup PaidPlans

STRIPE_PRO_PRICE_ID == "price_pro"

STRIPE_BUSINESS_PRICE_ID == "price_business"

FailingStatuses == {"canceled", "unpaid", "incomplete_expired", "past_due"}

ActiveStatuses == {"active", "trialing"}

----------------------------------------------------------------------------
(* Pure helpers *)

Min(S) == CHOOSE x \in S : \A y \in S : x <= y

\* String.prototype.toLowerCase on the plan tags that occur
ToLower(s) ==
  CASE s = "PRO" -> "pro"
    [] s = "BUSINESS" -> "business"
    [] s = "Pro" -> "pro"
    [] OTHER -> s

\* new User(...) through the schema: role and plan default to free, the
\* dates and Stripe references are unset
NewUser(email) ==
  [ googleId |-> Null,
    email |-> email,
    lastLogin |-> Null,
    role |-> "free",
    plan |-> "free",
    planStartedAt |-> Null,
    planExpiresAt |-> Null,
    stripeCustomerId |-> Null,
    stripeSubscriptionId |-> Null ]

\* User.findOne({ googleId }): the first matching document
findByGoogleId(U, g) ==
  LET M == {u \in DOMAIN U : U[u].googleId = g}
  IN IF M = {} THEN Null ELSE Min(M)

\* the _id a new User document gets
NewUserId(U) == Min((UserIds \cup {1 + Cardinality(UserIds)}) \ DOMAIN U)

\* the GoogleStrategy verify callback that saves a fresh document on every
\* login
verifyCallback_AlwaysCreates(U, googleId, email, t) ==
  LET id == NewUserId(U)
  IN [u \in DOMAIN U \cup {id} |->
        IF u = id
          THEN [NewUser(email) EXCEPT !.googleId = googleId, !.lastLogin = t]
          ELSE U[u]]

\* the GoogleStrategy verify callback: the store after a login with the
\* profile (googleId, email) at time t
verifyCallback(U, googleId, email, t) ==
  LET user == findByGoogleId(U, googleId)
      id == NewUserId(U)
  IN IF user = Null
       THEN [u \in DOMAIN U \cup {id} |->
               IF u = id
                 THEN [NewUser(email) EXCEPT !.googleId = googleId,
                                             !.lastLogin = t]
                 ELSE U[u]]
       ELSE [U EXCEPT ![user].lastLogin = t]

\* User.findById: the id if a document with it exists
findById(U, id) == IF id \in DOMAIN U THEN id ELSE Null

\* User.findOne({ stripeSubscriptionId }): the first matching document
findBySubscription(U, s) ==
  LET M == {u \in DOMAIN U : U[u].stripeSubscriptionId = s}
  IN IF M = {} THEN Null ELSE Min(M)

\* User.findOne({ stripeCustomerId })
findByCustomer(U, c) ==
  LET M == {u \in DOMAIN U : U[u].stripeCustomerId = c}
  IN IF M = {} THEN Null ELSE Min(M)

\* User.findOne({ email })
findByEmail(U, e) ==
  LET M == {u \in DOMAIN U : U[u].email = e}
  IN IF M = {} THEN Null ELSE Min(M)

\* planExpiresAt.setMonth(getMonth() + 1) on new Date()
OneMonthFrom(t) == t + MonthLen

\* plan type from the price id, else from the metadata tag
DeterminePlanType_PriceFirst(planType, priceId) ==
  IF priceId = STRIPE_PRO_PRICE_ID THEN "pro"
  ELSE IF priceId = STRIPE_BUSINESS_PRICE_ID THEN "business"
  ELSE IF planType # NoStr THEN ToLower(planType) ELSE NoStr

\* plan type from the metadata tag, else from the price id
DeterminePlanType(planType, priceId) ==
  LET normalized == IF planType # NoStr THEN ToLower(planType) ELSE NoStr
  IN IF normalized = NoStr /\ priceId # NoStr
       THEN IF priceId = STRIPE_PRO_PRICE_ID THEN "pro"
            ELSE IF priceId = STRIPE_BUSINESS_PRICE_ID THEN "business"
            ELSE NoStr
       ELSE normalized

----------------------------------------------------------------------------
(* Webhook handlers: each maps the user store U, the event payload and the *)
(* processing time t to the user store after the handler returned.         *)

\* the userId handleCheckoutCompleted works with: the metadata userId, else
\* the user found by the payer e-mail
CheckoutUserId(U, session) ==
  IF session.userId # Null THEN session.userId
  ELSE IF session.email # Null THEN findByEmail(U, session.email)
  ELSE Null

\* the stored user a checkout session resolves to (Null: none)
CheckoutUser(U, session) ==
  LET userId == CheckoutUserId(U, session)
  IN IF userId = Null THEN Null ELSE findById(U, userId)

handleCheckoutCompleted_IgnoresPeriodEnd(U, session, retr, t) ==
  LET planType == IF session.plan # NoStr THEN session.plan ELSE session.planType
      userId == CheckoutUserId(U, session)
  IN IF userId = Null THEN U
     ELSE IF planType = NoStr THEN U
     ELSE IF ToLower(planType) \notin PaidPlans THEN U
     ELSE IF session.payment_status # "paid" THEN U
     ELSE IF findById(U, userId) = Null THEN U
     ELSE [U EXCEPT ![userId] =
            [@ EXCEPT !.role = ToLower(planType),
                      !.plan = ToLower(planType),
                      !.planStartedAt = t,
                      !.planExpiresAt = OneMonthFrom(t),
                      !.stripeSubscriptionId =
                         IF session.subscription # Null
                           THEN session.subscription ELSE @]]

\* handleCheckoutCompleted that upgrades whatever the payment status is
handleCheckoutCompleted_IgnoresPayment(U, session, retr, t) ==
  LET planType == IF session.plan # NoStr THEN session.plan ELSE session.planType
      userId == CheckoutUserId(U, session)
  IN IF userId = Null THEN U
     ELSE IF planType = NoStr THEN U
     ELSE IF ToLower(planType) \notin PaidPlans THEN U
     ELSE IF findById(U, userId) = Null THEN U
     ELSE [U EXCEPT ![userId] =
            [@ EXCEPT !.role = ToLower(planType),
                      !.plan = ToLower(planType),
                      !.planStartedAt = t,
                      !.planExpiresAt =
                         IF session.subscription # Null /\ retr > Null
                           THEN retr ELSE OneMonthFrom(t),
                      !.stripeSubscriptionId =
                         IF session.subscription # Null
                           THEN session.subscription ELSE @]]

\* handleCheckoutCompleted that falls back to pro for a missing or unknown
\* plan tag
handleCheckoutCompleted_DefaultsToPro(U, session, retr, t) ==
  LET planType == IF session.plan # NoStr THEN session.plan ELSE session.planType
      plan == IF planType # NoStr /\ ToLower(planType) \in PaidPlans
                THEN ToLower(planType) ELSE "pro"
      userId == CheckoutUserId(U, session)
  IN IF userId = Null THEN U
     ELSE IF session.payment_status # "paid" THEN U
     ELSE IF findById(U, userId) = Null THEN U
     ELSE [U EXCEPT ![userId] =
            [@ EXCEPT !.role = plan,
                      !.plan = plan,
                      !.planStartedAt = t,
                      !.planExpiresAt =
                         IF session.subscription # Null /\ retr > Null
                           THEN retr ELSE OneMonthFrom(t),
                      !.stripeSubscriptionId =
                         IF session.subscription # Null
                           THEN session.subscription ELSE @]]

\* handleCheckoutCompleted(session); retr is what
\* stripe.subscriptions.retrieve answers: -1 when it throws, else the
\* subscription's current_period_end (Null when absent)
handleCheckoutCompleted(U, session, retr, t) ==
  LET planType == IF session.plan # NoStr THEN session.plan ELSE session.planType
      userId == CheckoutUserId(U, session)
  IN IF userId = Null THEN U
     ELSE IF planType = NoStr THEN U
     ELSE IF ToLower(planType) \notin PaidPlans THEN U
     ELSE IF session.payment_status # "paid" THEN U
     ELSE IF findById(U, userId) = Null THEN U
     ELSE
       LET user == U[userId]
           normalizedPlanType == ToLower(planType)
           subscriptionId == session.subscription
           periodEnd == IF subscriptionId # Null /\ retr > Null THEN retr ELSE Null
           planExpiresAt == IF periodEnd # Null THEN periodEnd ELSE OneMonthFrom(t)
           isDuplicate == /\ subscriptionId # Null
                          /\ user.stripeSubscriptionId = subscriptionId
                          /\ user.plan = normalizedPlanType
                          /\ user.planExpiresAt # Null
                          /\ user.planExpiresAt > t
       IN IF isDuplicate THEN U
          ELSE [U EXCEPT ![userId] =
                 [@ EXCEPT !.role = normalizedPlanType,
                           !.plan = normalizedPlanType,
                           !.planStartedAt = t,
                           !.planExpiresAt = planExpiresAt,
                           !.stripeSubscriptionId =
                              IF subscriptionId # Null THEN subscriptionId ELSE @]]

\* the user a subscription event resolves to, with the store after the
\* linking save: by subscription id, else by metadata userId (linking),
\* else, when byCustomer, by customer id (linking)
ResolveSubscriptionUser(U, subscription, byCustomer) ==
  LET bySub == findBySubscription(U, subscription.id)
      byId == IF bySub = Null /\ subscription.userId # Null
                THEN findById(U, subscription.userId) ELSE Null
      byCust == IF bySub = Null /\ byId = Null /\ byCustomer
                   /\ subscription.customer # Null
                  THEN findByCustomer(U, subscription.customer) ELSE Null
      user == IF bySub # Null THEN bySub
              ELSE IF byId # Null THEN byId ELSE byCust
  IN [ user |-> user,
       store |-> IF user # Null /\ bySub = Null
                   THEN [U EXCEPT ![user].stripeSubscriptionId = subscription.id]
                   ELSE U ]

\* handleSubscriptionCreated(subscription)
handleSubscriptionCreated(U, subscription, t) ==
  LET determinedPlanType ==
        DeterminePlanType(subscription.planType, subscription.priceId)
      r == ResolveSubscriptionUser(U, subscription, TRUE)
      U1 == r.store
  IN IF r.user = Null THEN U
     ELSE
       LET user == U1[r.user]
       IN IF subscription.status \in ActiveStatuses
            THEN IF determinedPlanType \in PaidPlans
                   THEN LET planExpiresAt ==
                              IF subscription.current_period_end # Null
                                THEN subscription.current_period_end
                                ELSE OneMonthFrom(t)
                            needsUpdate ==
                              \/ user.plan # determinedPlanType
                              \/ user.stripeSubscriptionId # subscription.id
                              \/ user.planExpiresAt = Null
                              \/ user.planExpiresAt # planExpiresAt
                        IN IF needsUpdate
                             THEN [U1 EXCEPT ![r.user] =
                                    [@ EXCEPT !.role = determinedPlanType,
                                              !.plan = determinedPlanType,
                                              !.planExpiresAt = planExpiresAt,
                                              !.stripeSubscriptionId = subscription.id,
                                              !.planStartedAt =
                                                 IF @ = Null THEN t ELSE @]]
                             ELSE U1
                   ELSE IF subscription.current_period_end # Null
                          THEN [U1 EXCEPT ![r.user].planExpiresAt =
                                  subscription.current_period_end]
                          ELSE U1
            ELSE U1

\* updateSubscriptionDetails(user, subscription, planType)
updateSubscriptionDetails(U, u, subscription, planType, t) ==
  LET user == U[u]
      determinedPlanType == DeterminePlanType(planType, subscription.priceId)
  IN IF subscription.status \in ActiveStatuses
       THEN [U EXCEPT ![u] =
              [@ EXCEPT !.role = IF determinedPlanType \in PaidPlans
                                   THEN determinedPlanType ELSE @,
                        !.plan = IF determinedPlanType \in PaidPlans
                                   THEN determinedPlanType ELSE @,
                        !.planExpiresAt =
                           IF subscription.current_period_end # Null
                             THEN subscription.current_period_end ELSE @,
                        !.planStartedAt = IF @ = Null THEN t ELSE @]]
     ELSE IF subscription.status \in FailingStatuses
       THEN [U EXCEPT ![u] =
              [@ EXCEPT !.role = "free",
                        !.plan = "free",
                        !.planExpiresAt = Null,
                        !.stripeSubscriptionId = Null]]
     ELSE U

\* handleSubscriptionUpdate(subscription)
handleSubscriptionUpdate(U, subscription, t) ==
  LET r == ResolveSubscriptionUser(U, subscription, FALSE)
  IN IF r.user = Null THEN U
     ELSE updateSubscriptionDetails(r.store, r.user, subscription,
                                    subscription.planType, t)

\* the user handleSubscriptionCancelled downgrades: by subscription id,
\* else by metadata userId (no linking)
CancelledUser(U, subscription) ==
  LET bySub == findBySubscription(U, subscription.id)
  IN IF bySub # Null THEN bySub
     ELSE IF subscription.userId # Null THEN findById(U, subscription.userId)
     ELSE Null

\* handleSubscriptionCancelled that leaves the subscription id on the user
handleSubscriptionCancelled_KeepsRef(U, subscription, t) ==
  LET u == CancelledUser(U, subscription)
  IN IF u = Null THEN U
     ELSE [U EXCEPT ![u] =
            [@ EXCEPT !.role = "free",
                      !.plan = "free",
                      !.planExpiresAt = Null]]

\* handleSubscriptionCancelled(subscription)
\* handleSubscriptionCancelled that, resolving no user, downgrades every
\* user without a subscription
handleSubscriptionCancelled_MatchesUnset(U, subscription, t) ==
  LET u == CancelledUser(U, subscription)
  IN IF u = Null
       THEN [x \in DOMAIN U |->
               IF U[x].stripeSubscriptionId = Null
                 THEN [U[x] EXCEPT !.role = "free", !.plan = "free",
                                   !.planExpiresAt = Null]
                 ELSE U[x]]
     ELSE [U EXCEPT ![u] =
            [@ EXCEPT !.role = "free",
                      !.plan = "free",
                      !.planExpiresAt = Null,
                      !.stripeSubscriptionId = Null]]

handleSubscriptionCancelled(U, subscription, t) ==
  LET u == CancelledUser(U, subscription)
  IN IF u = Null THEN U
     ELSE [U EXCEPT ![u] =
            [@ EXCEPT !.role = "free",
                      !.plan = "free",
                      !.planExpiresAt = Null,
                      !.stripeSubscriptionId = Null]]

\* the user an invoice event resolves to, with the store after the
\* linking save
ResolveInvoiceUser(U, invoice) ==
  LET bySub == findBySubscription(U, invoice.subscription)
      byId == IF bySub = Null /\ invoice.userId # Null
                THEN findById(U, invoice.userId) ELSE Null
      user == IF bySub # Null THEN bySub ELSE byId
  IN [ user |-> user,
       store |-> IF user # Null /\ bySub = Null
                   THEN [U EXCEPT ![user].stripeSubscriptionId = invoice.subscription]
                   ELSE U ]

\* handlePaymentSucceeded that upgrades a free user with a paid invoice
handlePaymentSucceeded_AutoUpgrade(U, invoice, t) ==
  IF invoice.subscription = Null THEN U
  ELSE
    LET r == ResolveInvoiceUser(U, invoice)
    IN IF r.user = Null THEN U
       ELSE
         LET user == r.store[r.user]
             newExpiration == invoice.period_end
             U1 == IF /\ invoice.period_end # Null
                      /\ newExpiration > t
                      /\ (user.planExpiresAt = Null
                            \/ user.planExpiresAt # newExpiration)
                     THEN [r.store EXCEPT ![r.user].planExpiresAt = newExpiration]
                     ELSE r.store
         IN IF user.plan = "free"
              THEN [U1 EXCEPT ![r.user] = [@ EXCEPT !.plan = "pro", !.role = "pro"]]
              ELSE U1

\* handlePaymentSucceeded(invoice)
handlePaymentSucceeded(U, invoice, t) ==
  IF invoice.subscription = Null THEN U
  ELSE
    LET r == ResolveInvoiceUser(U, invoice)
    IN IF r.user = Null THEN U
       ELSE
         LET user == r.store[r.user]
             newExpiration == invoice.period_end
         IN IF /\ invoice.period_end # Null
               /\ newExpiration > t
               /\ (user.planExpiresAt = Null \/ user.planExpiresAt # newExpiration)
              THEN [r.store EXCEPT ![r.user].planExpiresAt = newExpiration]
              ELSE r.store

\* handlePaymentFailed(invoice)
handlePaymentFailed(U, invoice, t) ==
  IF invoice.subscription = Null THEN U
  ELSE ResolveInvoiceUser(U, invoice).store

----------------------------------------------------------------------------
(* HTTP responses: status code, the webhook body {received, processed}, *)
(* and the plan a user-returning body carries                            *)

\* no response has been sent
NoResp == [code |-> Null, received |-> FALSE, processed |-> FALSE, plan |-> NoStr,
           resumes |-> {}, hasActiveSubscription |-> FALSE]

\* res.status(code).json(...) of an API route; plan is the plan in the body
Reply(code, plan) == [NoResp EXCEPT !.code = code, !.plan = plan]

\* res.status(code).json(...) of a resume route; ids are the resumes in
\* the body
ResumeReply(code, ids) == [NoResp EXCEPT !.code = code, !.resumes = ids]

\* res.status(code).json({ received, processed }) of the webhook route
WebhookReply(code, received, processed) ==
  [NoResp EXCEPT !.code = code, !.received = received, !.processed = processed]

----------------------------------------------------------------------------
(* Authenticated read paths *)

\* getSubscriptionStatus: the store after GET /payment/status by user u
getSubscriptionStatus(U, u, t) ==
  IF findById(U, u) = Null THEN U
  ELSE LET user == U[u]
       IN IF user.planExpiresAt # Null /\ user.planExpiresAt < t
             /\ user.plan # "free"
            THEN [U EXCEPT ![u] = [@ EXCEPT !.plan = "free",
                                            !.planExpiresAt = Null]]
            ELSE U

\* me: the store after GET /auth/me by user u
me(U, u, t) ==
  IF findById(U, u) = Null THEN U
  ELSE LET user == U[u]
           U1 == IF user.planExpiresAt # Null /\ user.planExpiresAt < t
                    /\ user.plan # "free"
                   THEN [U EXCEPT ![u] = [@ EXCEPT !.role = "free",
                                                   !.plan = "free",
                                                   !.planExpiresAt = Null]]
                   ELSE U
           user1 == U1[u]
       IN IF user1.plan # NoStr /\ user1.role = NoStr
            THEN [U1 EXCEPT ![u].role = user1.plan]
          ELSE IF user1.role # NoStr /\ user1.plan = NoStr
            THEN [U1 EXCEPT ![u].plan = user1.role]
          ELSE U1

\* hasActiveSubscription of the body of GET /payment/status, computed on
\* the document the handler holds
hasActiveSubscription(user, t) ==
  /\ user.plan # "free"
  /\ (user.planExpiresAt = Null \/ user.planExpiresAt > t)

\* the body of GET /payment/status with hasActiveSubscription computed on
\* the document as it was read
getSubscriptionStatusResponse_BeforeDowngrade(U, u, t) ==
  IF findById(U, u) = Null THEN Reply(404, NoStr)
  ELSE [Reply(200, getSubscriptionStatus(U, u, t)[u].plan)
          EXCEPT !.hasActiveSubscription = U[u].plan # "free"]

\* the body of GET /payment/status
getSubscriptionStatusResponse(U, u, t) ==
  IF findById(U, u) = Null THEN Reply(404, NoStr)
  ELSE [Reply(200, getSubscriptionStatus(U, u, t)[u].plan)
          EXCEPT !.hasActiveSubscription =
                    hasActiveSubscription(getSubscriptionStatus(U, u, t)[u], t)]

\* the body of the controller's me
meResponse(U, u, t) ==
  IF findById(U, u) = Null THEN Reply(404, NoStr)
  ELSE LET user == me(U, u, t)[u]
       IN Reply(200, IF user.plan # NoStr THEN user.plan
                     ELSE IF user.role # NoStr THEN user.role ELSE "free")

\* passport.deserializeUser: req.user is read from the store on every
\* request of the session
deserializeUser(U, id) == findById(U, id)

\* router.get('/me') of the auth routes: answers with req.user as it is
routerMeResponse(U, u) ==
  IF deserializeUser(U, u) = Null THEN Reply(401, NoStr)
  ELSE Reply(200, U[deserializeUser(U, u)].plan)

\* what String(object) leaves in a String path: no subscription's id
ObjectString == 1 + Cardinality(SubIds)

verifyRefusal_IgnoresOwner(U, u, session) ==
  IF session.payment_status # "paid" THEN 200
  ELSE IF session.planType = NoStr THEN 400
  ELSE IF ToLower(session.planType) \notin PaidPlans THEN 400
  ELSE IF findById(U, u) = Null THEN 404
  ELSE Null

\* verifyPaymentSession stops before it looks at the user's record: the
\* status it answers with, Null when it goes on
verifyRefusal(U, u, session) ==
  IF session.userId # Null /\ session.userId # u THEN 403
  ELSE IF session.payment_status # "paid" THEN 200
  ELSE IF session.planType = NoStr THEN 400
  ELSE IF ToLower(session.planType) \notin PaidPlans THEN 400
  ELSE IF findById(U, u) = Null THEN 404
  ELSE Null

\* the idempotency check of verifyPaymentSession.  The session is retrieved
\* with expand: ['subscription'], so session.subscription is the
\* subscription object and never equals the stored id
verifyAlreadyUpdated(user, session, t) ==
  /\ user.plan = ToLower(session.planType)
  /\ user.role = ToLower(session.planType)
  /\ session.subscription = Null
  /\ user.stripeSubscriptionId = Null
  /\ user.planExpiresAt # Null
  /\ user.planExpiresAt > t

\* verifyPaymentSession that, like the webhook, upgrades the user found by
\* the payer e-mail when the session names no user
verifyPaymentSession_UpdatesPayer(U, u, session, castError, t) ==
  LET payer == IF session.userId = Null /\ session.email # Null
                 THEN findByEmail(U, session.email) ELSE Null
      target == IF payer # Null THEN payer ELSE u
  IN IF verifyRefusal(U, u, session) # Null THEN U
     ELSE IF verifyAlreadyUpdated(U[u], session, t) THEN U
     ELSE IF session.subscription # Null /\ castError THEN U
     ELSE [U EXCEPT ![target] =
            [@ EXCEPT !.role = ToLower(session.planType),
                      !.plan = ToLower(session.planType),
                      !.planStartedAt = t,
                      !.planExpiresAt = OneMonthFrom(t),
                      !.stripeSubscriptionId =
                         IF session.subscription # Null THEN ObjectString ELSE @]]

\* verifyPaymentSession: the store after POST /payment/verify-session by
\* user u for the retrieved session.  stripe.subscriptions.retrieve is
\* called with the subscription object and throws, so the term falls back
\* to one month; castError is whether the update rejects the object as
\* stripeSubscriptionId (then nothing is written) or stores its string
verifyPaymentSession(U, u, session, castError, t) ==
  IF verifyRefusal(U, u, session) # Null THEN U
  ELSE IF verifyAlreadyUpdated(U[u], session, t) THEN U
  ELSE IF session.subscription # Null /\ castError THEN U
  ELSE [U EXCEPT ![u] =
         [@ EXCEPT !.role = ToLower(session.planType),
                   !.plan = ToLower(session.planType),
                   !.planStartedAt = t,
                   !.planExpiresAt = OneMonthFrom(t),
                   !.stripeSubscriptionId =
                      IF session.subscription # Null THEN ObjectString ELSE @]]

\* the response of POST /payment/verify-session
verifyPaymentSessionResponse(U, u, session, castError, t) ==
  IF verifyRefusal(U, u, session) # Null
    THEN Reply(verifyRefusal(U, u, session), NoStr)
  ELSE IF verifyAlreadyUpdated(U[u], session, t) THEN Reply(200, U[u].plan)
  ELSE IF session.subscription # Null /\ castError THEN Reply(500, NoStr)
  ELSE Reply(200, ToLower(session.planType))

\* cancelSubscription that downgrades the user at once
cancelSubscription_RevokesNow(U, u) ==
  IF findById(U, u) = Null THEN U
  ELSE IF U[u].stripeSubscriptionId = Null THEN U
  ELSE [U EXCEPT ![u] = [@ EXCEPT !.role = "free", !.plan = "free",
                                   !.planExpiresAt = Null,
                                   !.stripeSubscriptionId = Null]]

\* cancelSubscription: the store after POST /payment/cancel-subscription by
\* user u; the handler reads the user and writes nothing
cancelSubscription(U, u) ==
  IF findById(U, u) = Null THEN U
  ELSE IF U[u].stripeSubscriptionId = Null THEN U
  ELSE U

\* the request cancelSubscription sends to the provider: the subscription
\* it updates with cancel_at_period_end: true, Null when it sends none
cancelSubscriptionUpdate(U, u) ==
  IF findById(U, u) = Null THEN Null
  ELSE U[u].stripeSubscriptionId

\* the response of POST /payment/cancel-subscription; throws is whether
\* stripe.subscriptions.update fails
cancelSubscriptionResponse(U, u, throws) ==
  IF findById(U, u) = Null THEN Reply(404, NoStr)
  ELSE IF U[u].stripeSubscriptionId = Null THEN Reply(404, NoStr)
  ELSE IF throws THEN Reply(500, NoStr)
  ELSE Reply(200, NoStr)

\* createCheckoutSession: the store after POST /payment/create-session by
\* user u; a user without a Stripe customer gets one (customer id = user id)
createCheckoutSession(U, u, planType) ==
  IF planType = NoStr THEN U
  ELSE IF planType \notin PaidPlans THEN U
  ELSE IF findById(U, u) = Null THEN U
  ELSE IF U[u].stripeCustomerId = Null
    THEN [U EXCEPT ![u].stripeCustomerId = u]
  ELSE U

\* the status of POST /payment/create-session
createCheckoutSessionResponse(U, u, planType) ==
  IF planType = NoStr \/ planType \notin PaidPlans THEN Reply(400, NoStr)
  ELSE IF findById(U, u) = Null THEN Reply(404, NoStr)
  ELSE Reply(200, NoStr)

----------------------------------------------------------------------------
(* Resume store: resume id -> owning user *)

\* Resume.countDocuments({ userId })
countDocuments(R, u) == Cardinality({id \in DOMAIN R : R[id].userId = u})

\* new Resume({ userId, title, ... }): every created resume starts with the
\* same content
NewResume(u) == [userId |-> u, title |-> 1]

\* the contents a PUT body can carry
Titles == {1, 2}

\* the _id a new Resume document gets
NewResumeId(R) == Min((1..(MaxResumes + 1)) \ DOMAIN R)

createResume_OffByOne(U, R, u, valid) ==
  IF ~valid THEN R
  ELSE IF findById(U, u) = Null THEN R
  ELSE IF U[u].plan = "free" /\ countDocuments(R, u) > FreePlanLimit THEN R
  ELSE LET id == NewResumeId(R)
       IN [i \in DOMAIN R \cup {id} |-> IF i = id THEN NewResume(u) ELSE R[i]]

\* createResume: the resume store after POST /resumes by user u; valid is
\* whether the body carries title and data
createResume(U, R, u, valid) ==
  IF ~valid THEN R
  ELSE IF findById(U, u) = Null THEN R
  ELSE IF U[u].plan = "free" /\ countDocuments(R, u) >= FreePlanLimit THEN R
  ELSE LET id == NewResumeId(R)
       IN [i \in DOMAIN R \cup {id} |-> IF i = id THEN NewResume(u) ELSE R[i]]

\* the status of POST /resumes
createResumeResponse(U, R, u, valid) ==
  IF ~valid THEN Reply(400, NoStr)
  ELSE IF findById(U, u) = Null THEN Reply(404, NoStr)
  ELSE IF U[u].plan = "free" /\ countDocuments(R, u) >= FreePlanLimit
    THEN Reply(403, NoStr)
  ELSE Reply(201, NoStr)

\* migrateResumes: the resume store after POST /resumes/migrate by user u
\* with a body whose array holds fresh entries that match no stored resume
\* of u by title and name; each is saved, whatever the plan
RECURSIVE migrateResumes(_, _, _)
migrateResumes(R, u, fresh) ==
  IF fresh = 0 THEN R
  ELSE LET id == NewResumeId(R)
       IN migrateResumes([i \in DOMAIN R \cup {id} |-> IF i = id THEN NewResume(u) ELSE R[i]],
                         u, fresh - 1)

\* the status of POST /resumes/migrate; isArray is whether the body
\* carries a resumes array
migrateResumesResponse(isArray) ==
  IF ~isArray THEN Reply(400, NoStr) ELSE Reply(200, NoStr)

\* Resume.findOne({ _id: id, userId: u }): the id if such a document exists
findOneResume(R, u, id) ==
  IF id \in DOMAIN R /\ R[id].userId = u THEN id ELSE Null

\* the response of GET /resumes by user u
getAllResumesResponse(R, u) ==
  ResumeReply(200, {id \in DOMAIN R : R[id].userId = u})

\* the response of GET /resumes/:id by user u
getResumeResponse(R, u, id) ==
  IF findOneResume(R, u, id) = Null THEN ResumeReply(404, {})
  ELSE ResumeReply(200, {id})

\* the response of GET /resumes/:id/download by user u
downloadResumeResponse(R, u, id) ==
  IF findOneResume(R, u, id) = Null THEN ResumeReply(404, {})
  ELSE ResumeReply(200, {id})

\* updateResume that looks the resume up by its id alone
updateResume_AnyOwner(R, u, id, title) ==
  IF id \notin DOMAIN R THEN R
  ELSE IF title = Null THEN R
  ELSE [R EXCEPT ![id].title = title]

\* updateResume: the resume store after PUT /resumes/:id by user u; title
\* is the content in the body, Null when the body carries none
updateResume(R, u, id, title) ==
  IF findOneResume(R, u, id) = Null THEN R
  ELSE IF title = Null THEN R
  ELSE [R EXCEPT ![id].title = title]

\* the response of PUT /resumes/:id by user u
updateResumeResponse(R, u, id) ==
  IF findOneResume(R, u, id) = Null THEN ResumeReply(404, {})
  ELSE ResumeReply(200, {id})

\* the status of DELETE /resumes/:id
deleteResumeResponse(R, u, id) ==
  IF id \in DOMAIN R /\ R[id].userId = u
    THEN Reply(200, NoStr) ELSE Reply(404, NoStr)

\* deleteResume: the resume store after DELETE /resumes/:id by user u
deleteResume(R, u, id) ==
  IF id \in DOMAIN R /\ R[id].userId = u
    THEN [i \in DOMAIN R \ {id} |-> R[i]]
    ELSE R

----------------------------------------------------------------------------
(* Event payloads delivered by the provider *)

\* user ids that event metadata may carry; an id without a stored user
\* is a user that does not exist
MetaUserIds == {Null} \cup UserIds

\* checkout sessions: metadata {userId, plan, planType}, payer e-mail,
\* payment_status, subscription
CheckoutSessions ==
  { s \in [ userId : MetaUserIds,
            email : {Null} \cup UserIds,
            plan : {NoStr, "pro", "business", "enterprise"},
            planType : {NoStr, "pro", "business", "PRO", "enterprise"},
            payment_status : {"paid", "unpaid"},
            subscription : {Null} \cup SubIds ] :
      \* sessions made by createCheckoutSession carry plan = planType;
      \* foreign sessions carry one tag or none
      /\ \/ s.plan = s.planType
         \/ s.plan = NoStr /\ s.planType = "PRO"
      \* the payer e-mail matters only without a metadata userId
      /\ s.userId # Null => s.email = Null
      \* one malformed field at a time
      /\ (s.plan \in {NoStr, "enterprise"} /\ s.planType # "PRO")
            => s.userId = 1 /\ s.payment_status = "paid" /\ s.subscription = 1
      /\ s.payment_status = "unpaid"
            => s.userId = 1 /\ s.plan = "pro" /\ s.subscription = 1
      /\ (s.userId \notin {Null, 1} \/ (s.userId = Null /\ s.email # 1))
            => s.plan = "pro" /\ s.subscription = 1 }

\* answers of stripe.subscriptions.retrieve: -1 when it throws, else the
\* current_period_end of the subscription
RetrieveResults == {-1} \cup PeriodEnds

\* subscription objects of customer.subscription.* events
SubscriptionEvents ==
  { e \in [ id : SubIds,
            status : ActiveStatuses \cup FailingStatuses \cup {"incomplete"},
            customer : {Null} \cup UserIds,
            current_period_end : {Null} \cup PeriodEnds,
            userId : MetaUserIds,
            planType : {NoStr, "pro", "Pro"},
            priceId : {NoStr, STRIPE_BUSINESS_PRICE_ID, "price_other"} ] :
      LET base == e.planType = "pro" /\ e.current_period_end = MaxNow + 1
      IN
      \* the price id is consulted only without a metadata tag
      /\ e.planType # NoStr => e.priceId = NoStr
      /\ e.planType = NoStr => e.priceId # NoStr
      \* the customer id is consulted only without a metadata userId
      /\ e.userId # Null => e.customer = Null
      \* an event naming a user or customer that is not stored
      /\ (e.userId \notin {Null, 1} \/ e.customer \notin {Null, 1})
            => base /\ e.status = "active"
      \* the period end and plan are read only for active/trialing
      /\ e.status \notin ActiveStatuses => base
      /\ e.status \notin {"active", "past_due"}
            => base /\ e.id = 1 /\ e.customer = Null
      /\ e.planType = "Pro" => e.userId = 1 /\ e.current_period_end = MaxNow
      /\ e.current_period_end = Null => e.planType = "pro" }

\* invoice objects of invoice.payment_* events
InvoiceEvents ==
  { e \in [ subscription : {Null} \cup SubIds,
            userId : MetaUserIds,
            period_end : {Null} \cup PeriodEnds ] :
      (e.subscription = Null \/ e.userId \notin {Null, 1})
         => e.subscription # 2 /\ e.userId # 1 /\ e.period_end = MaxNow + 1 }

\* subscription objects of customer.subscription.deleted events
DeletedEvents == [ id : SubIds, userId : MetaUserIds ]

----------------------------------------------------------------------------
(* The state machine *)

WebhookOps == {"checkout_completed", "subscription_created",
               "subscription_updated", "subscription_deleted",
               "invoice_payment_succeeded", "invoice_payment_failed"}

\* what handleWebhook's switch dispatches to
Dispatch(U, op, ev, retr, t) ==
  CASE op = "checkout_completed" -> handleCheckoutCompleted(U, ev, retr, t)
    [] op = "subscription_created" -> handleSubscriptionCreated(U, ev, t)
    [] op = "subscription_updated" -> handleSubscriptionUpdate(U, ev, t)
    [] op = "subscription_deleted" -> handleSubscriptionCancelled(U, ev, t)
    [] op = "invoice_payment_succeeded" -> handlePaymentSucceeded(U, ev, t)
    [] op = "invoice_payment_failed" -> handlePaymentFailed(U, ev, t)
    [] OTHER -> U

\* what the stripe-signature header of a webhook request can be
SigKinds == {"missing", "invalid", "valid"}

\* handleWebhookResponse that reports a throwing handler as a server error
handleWebhookResponse_ErrorOnThrow(secret, sig, throws) ==
  IF ~secret THEN WebhookReply(500, FALSE, FALSE)
  ELSE IF sig # "valid" THEN WebhookReply(400, FALSE, FALSE)
  ELSE IF throws THEN WebhookReply(500, FALSE, FALSE)
  ELSE WebhookReply(200, TRUE, TRUE)

\* the response of handleWebhook: secret is whether STRIPE_WEBHOOK_SECRET is
\* configured, sig the signature header, throws whether the event handler
\* throws
handleWebhookResponse(secret, sig, throws) ==
  IF ~secret THEN WebhookReply(500, FALSE, FALSE)
  ELSE IF sig = "missing" THEN WebhookReply(400, FALSE, FALSE)
  ELSE IF sig # "valid" THEN WebhookReply(400, FALSE, FALSE)
  ELSE IF throws THEN WebhookReply(200, TRUE, FALSE)
  ELSE WebhookReply(200, TRUE, TRUE)

\* handleWebhook that dispatches a body whose signature does not match
handleWebhook_TrustsBody(U, secret, sig, op, ev, retr, throws, t) ==
  IF ~secret THEN U
  ELSE IF sig = "missing" THEN U
  ELSE IF throws THEN U
  ELSE Dispatch(U, op, ev, retr, t)

\* the store after handleWebhook; a handler throws before its own try
\* block, that is before it writes
handleWebhook(U, secret, sig, op, ev, retr, throws, t) ==
  IF ~secret THEN U
  ELSE IF sig = "missing" THEN U
  ELSE IF sig # "valid" THEN U
  ELSE IF throws THEN U
  ELSE Dispatch(U, op, ev, retr, t)

\* the user the handler of op resolves ev to in store U (Null: none)
Target(U, op, ev) ==
  CASE op = "checkout_completed" -> CheckoutUser(U, ev)
    [] op = "subscription_created" -> ResolveSubscriptionUser(U, ev, TRUE).user
    [] op = "subscription_updated" -> ResolveSubscriptionUser(U, ev, FALSE).user
    [] op = "subscription_deleted" -> CancelledUser(U, ev)
    [] op \in {"invoice_payment_succeeded", "invoice_payment_failed"} ->
         IF ev.subscription = Null THEN Null ELSE ResolveInvoiceUser(U, ev).user
    [] OTHER -> Null

\* no event is held by the provider for re-delivery
NoPending == [op |-> "none"]

\* the record standing in for "no user"
NoUser == NewUser(Null)

\* no checkout session was retrieved
NoSession == [userId |-> Null, email |-> Null, plan |-> NoStr,
              planType |-> NoStr, payment_status |-> NoStr,
              subscription |-> Null]

\* what the last operation was: its kind, the user it resolved to and that
\* user's record before it, the provider status and period end its payload
\* carried, whether it was a re-delivery of the event before it, the
\* response sent, the time it was handled at, the checkout session a
\* verify-session request retrieved and the resume id a resume request named

Summary(U, op, ev, re) ==
  [ op |-> op,
    user |-> Target(U, op, ev),
    before |-> IF Target(U, op, ev) = Null THEN NoUser
               ELSE U[Target(U, op, ev)],
    status |-> IF op \in {"subscription_created", "subscription_updated"}
                 THEN ev.status ELSE NoStr,
    period_end |-> IF op \in {"subscription_created", "subscription_updated"}
                     THEN ev.current_period_end
                   ELSE IF op = "invoice_payment_succeeded" THEN ev.period_end
                   ELSE Null,
    redelivery |-> re,
    resp |-> handleWebhookResponse(TRUE, "valid", FALSE),
    secret |-> TRUE,
    sig |-> "valid",
    at |-> now,
    session |-> NoSession,
    resume |-> Null ]

\* the summary of a checkout whose stripe.subscriptions.retrieve answered
\* retr carries the period end retrieved
Retrieved(summary, retr) ==
  IF summary.op = "checkout_completed" /\ retr > Null
    THEN [summary EXCEPT !.period_end = retr]
    ELSE summary

\* no operation is being answered
Idle == [op |-> "none", user |-> Null, before |-> NoUser, status |-> NoStr,
         period_end |-> Null, redelivery |-> FALSE, resp |-> NoResp,
         secret |-> FALSE, sig |-> NoStr, at |-> Null, session |-> NoSession,
         resume |-> Null]

----------------------------------------------------------------------------
(* GET /auth/google in one session.  express-session loads the session    *)
(* from the Mongo store into req.session before the route runs and saves  *)
(* it when the response ends; the route itself runs without interruption. *)
(* Times are in seconds.                                                   *)

\* the requests of the session
MaxRequests == 2

OAuthRequests == 1..MaxRequests

\* the debounce window: timeSinceLastInit < 2000 ms
DebounceWindow == 2

\* the latest second on the clock of the session
MaxClock == DebounceWindow + 3

\* a request that has not arrived
NoRequest == [pc |-> "idle", oauthInitTime |-> Null, at |-> Null]

\* no request arrived; the stored session carries no oauthInitTime
NoOAuth == [clock |-> DebounceWindow, oauthInitTime |-> Null,
            reqs |-> [r \in OAuthRequests |-> NoRequest]]

\* router.get('/google') on the request req at time t: req.oauthInitTime
\* is req.session.oauthInitTime || 0; an ignored request returns without
\* a response, so its session is never saved
oauthGoogle(req, t) ==
  IF t - req.oauthInitTime < DebounceWindow
    THEN [req EXCEPT !.pc = "ignored", !.at = t]
    ELSE [req EXCEPT !.pc = "redirecting", !.oauthInitTime = t, !.at = t]

\* the session middleware loads the stored session for request r
SessionLoad(r) ==
  /\ oauth.reqs[r].pc = "idle"
  /\ oauth' = [oauth EXCEPT !.reqs[r] =
                 [@ EXCEPT !.pc = "loaded", !.oauthInitTime = oauth.oauthInitTime]]
  /\ UNCHANGED <<users, resumes, now, last, pending, scenario, server>>

\* the route runs for request r
OAuthGoogle(r) ==
  /\ oauth.reqs[r].pc = "loaded"
  /\ oauth' = [oauth EXCEPT !.reqs[r] = oauthGoogle(@, oauth.clock)]
  /\ UNCHANGED <<users, resumes, now, last, pending, scenario, server>>

\* the redirect of request r ends the response and the session is saved
SessionSave(r) ==
  /\ oauth.reqs[r].pc = "redirecting"
  /\ oauth' = [oauth EXCEPT !.reqs[r].pc = "done",
                            !.oauthInitTime = oauth.reqs[r].oauthInitTime]
  /\ UNCHANGED <<users, resumes, now, last, pending, scenario, server>>

\* a second passes
OAuthTick ==
  /\ oauth.clock < MaxClock
  /\ oauth' = [oauth EXCEPT !.clock = @ + 1]
  /\ UNCHANGED <<users, resumes, now, last, pending, scenario, server>>

----------------------------------------------------------------------------
(* Server start: dotenv, validateEnv, startServer with port fallback, and  *)
(* the rewriting of BACKEND_URL in the .env file once the server listens.  *)

DEFAULT_PORT == 3006

FALLBACK_PORTS == <<3007, 3008, 8081, 8082, 8083>>

\* a port that is neither the default nor a fallback
OtherPort == 5000

\* what process.env.PORT can hold before the start: Null when unset
ConfiguredPorts == {Null, FALLBACK_PORTS[1], OtherPort}

\* `http://localhost:${port}`
LocalUrl(port) == [host |-> "http://localhost", port |-> port]

\* no BACKEND_URL: the variable is unset, the file has no such line
NoUrl == [host |-> NoStr, port |-> Null]

\* there is no .env file
NoFile == [host |-> "ENOENT", port |-> Null]

\* the values BACKEND_URL can hold before the start
BackendUrls ==
  {NoUrl, LocalUrl(DEFAULT_PORT), LocalUrl(FALLBACK_PORTS[1]),
   [host |-> "https://api.example.com", port |-> Null]}

\* the outcomes of server.listen: the listening callback, or an error event
\* with the code
ListenOutcomes == {"listening", "EACCES", "EADDRINUSE", "EADDRNOTAVAIL"}

\* the process has not started
Off == [state |-> "off", port |-> Null, attempt |-> 0, tried |-> <<>>,
        error |-> NoStr, file |-> NoFile, env |-> NoUrl]

\* dotenv.config(): a variable already in the environment is kept, else
\* the value in the file is taken
dotenvConfig(env, file) ==
  IF env # NoUrl THEN env
  ELSE IF file = NoFile THEN NoUrl
  ELSE file

\* updateBackendUrl(currentPort): the BACKEND_URL line of the .env file
\* after it
updateBackendUrl(file, port) ==
  IF file = NoFile THEN file
  ELSE IF file = LocalUrl(port) THEN file
  ELSE LocalUrl(port)

\* getCurrentBackendUrl(port)
getCurrentBackendUrl(env, port) ==
  IF env # NoUrl THEN env ELSE LocalUrl(port)

\* checkAndFixRedirectUri(currentPort): the BACKEND_URL line of the .env
\* file after it
checkAndFixRedirectUri(file, env, port) ==
  IF file = NoFile THEN file
  ELSE IF file # getCurrentBackendUrl(env, port)
    THEN getCurrentBackendUrl(env, port)
  ELSE file

\* the server 'error' handler that exits on every error
startServerOnError_NoFallback(sv, code) ==
  [sv EXCEPT !.state = "exited", !.tried = Append(@, sv.port),
             !.error = code]

\* the server 'error' handler of startServer(port, attempt); tried is the
\* ports server.listen was called with, error the code of the last error
startServerOnError(sv, code) ==
  IF code \in {"EACCES", "EADDRINUSE"}
    THEN IF sv.attempt < Len(FALLBACK_PORTS)
           THEN [sv EXCEPT !.port = FALLBACK_PORTS[sv.attempt + 1],
                           !.attempt = @ + 1,
                           !.tried = Append(@, sv.port),
                           !.error = code]
           ELSE [sv EXCEPT !.state = "exited", !.tried = Append(@, sv.port),
                           !.error = code]
    ELSE [sv EXCEPT !.state = "exited", !.tried = Append(@, sv.port),
                    !.error = code]

\* the listening callback of startServer: syncEnvWithPort(port), then
\* autoFixGoogleOAuth(port)
startServerOnListening(sv) ==
  [sv EXCEPT !.state = "running",
             !.tried = Append(@, sv.port),
             !.file = checkAndFixRedirectUri(updateBackendUrl(@, sv.port),
                                             sv.env, sv.port)]

\* the process starts: dotenv.config(), PORT, validateEnv(), and
\* startServer(PORT); valid is whether the required variables are set
Boot ==
  /\ server.state = "off"
  /\ \E configured \in ConfiguredPorts, file \in BackendUrls \cup {NoFile},
        env \in BackendUrls, valid \in BOOLEAN :
       server' = [Off EXCEPT
                    !.state = IF valid THEN "starting" ELSE "exited",
                    !.port = IF configured # Null THEN configured
                             ELSE DEFAULT_PORT,
                    !.file = file,
                    !.env = dotenvConfig(env, file)]
  /\ UNCHANGED <<users, resumes, now, last, pending, scenario, oauth>>

\* server.listen(port) succeeds and the listening callback runs, or fails
\* and the error handler runs
Listen ==
  /\ server.state = "starting"
  /\ \E outcome \in ListenOutcomes :
       server' = IF outcome = "listening"
                   THEN startServerOnListening(server)
                   ELSE startServerOnError(server, outcome)
  /\ UNCHANGED <<users, resumes, now, last, pending, scenario, oauth>>

\* no pair of events is being compared
NoScenario == [phase |-> "idle"]

\* the database holds one registered user and no resume
InitialUsers == {1}

Init ==
  /\ users = [u \in InitialUsers |-> [NewUser(u) EXCEPT !.googleId = u]]
  /\ resumes = <<>>
  /\ now = 1
  /\ last = Idle
  /\ pending = NoPending
  /\ scenario = NoScenario
  /\ oauth = NoOAuth
  /\ server = Off

\* the wall clock advances
Tick ==
  /\ now < MaxNow
  /\ now' = now + 1
  /\ UNCHANGED <<oauth, server, users, resumes, last, pending, scenario>>

\* POST /payment/webhook with a verified event; the provider holds the
\* event until it sees the acknowledgement
Deliver(op, ev, retr) ==
  /\ users' = handleWebhook(users, TRUE, "valid", op, ev, retr, FALSE, now)
  /\ last' = Retrieved(Summary(users, op, ev, FALSE), retr)
  /\ pending' = [op |-> op, ev |-> ev]
  /\ UNCHANGED <<oauth, server, resumes, now, scenario>>

CheckoutCompleted ==
  /\ pending = NoPending /\ last = Idle
  /\ \E session \in CheckoutSessions, retr \in RetrieveResults :
       /\ session.subscription = Null => retr = -1
       /\ Deliver("checkout_completed", session, retr)

SubscriptionCreated ==
  /\ pending = NoPending /\ last = Idle
  /\ \E e \in SubscriptionEvents : Deliver("subscription_created", e, -1)

SubscriptionUpdated ==
  /\ pending = NoPending /\ last = Idle
  /\ \E e \in SubscriptionEvents : Deliver("subscription_updated", e, -1)

SubscriptionDeleted ==
  /\ pending = NoPending /\ last = Idle
  /\ \E e \in DeletedEvents : Deliver("subscription_deleted", e, -1)

PaymentSucceeded ==
  /\ pending = NoPending /\ last = Idle
  /\ \E e \in InvoiceEvents : Deliver("invoice_payment_succeeded", e, -1)

PaymentFailed ==
  /\ pending = NoPending /\ last = Idle
  /\ \E e \in InvoiceEvents : Deliver("invoice_payment_failed", e, -1)

\* the events the provider sends with event type op
EventsOf(op) ==
  CASE op = "checkout_completed" -> CheckoutSessions
    [] op \in {"subscription_created", "subscription_updated"} -> SubscriptionEvents
    [] op \in {"invoice_payment_succeeded", "invoice_payment_failed"} -> InvoiceEvents
    [] OTHER -> DeletedEvents

\* a webhook request that is not verified: the secret is not configured, or
\* the signature header is missing or does not match the body.  The body
\* is never parsed, so the event type it claims stays unknown
WebhookUnverified ==
  /\ pending = NoPending /\ last = Idle
  /\ \E secret \in BOOLEAN, sig \in SigKinds, op \in WebhookOps :
       /\ ~(secret /\ sig = "valid")
       /\ \E ev \in EventsOf(op) :
            /\ users' = handleWebhook(users, secret, sig, op, ev, -1, FALSE, now)
            /\ last' = [Idle EXCEPT
                          !.op = "unverified",
                          !.resp = handleWebhookResponse(secret, sig, FALSE),
                          !.secret = secret,
                          !.sig = sig,
                          !.at = now]
  /\ UNCHANGED <<oauth, server, resumes, now, pending, scenario>>

\* the handlers that compute on the payload before their own try block
ThrowingOps == {"subscription_created", "subscription_updated"}

\* a verified event whose handler throws into handleWebhook's catch before
\* it has resolved a user
WebhookThrows ==
  /\ pending = NoPending /\ last = Idle
  /\ \E op \in ThrowingOps :
       \E ev \in EventsOf(op) :
         /\ users' = handleWebhook(users, TRUE, "valid", op, ev, -1, TRUE, now)
         /\ last' = [Summary(users, op, ev, FALSE) EXCEPT
                       !.user = Null,
                       !.before = NoUser,
                       !.resp = handleWebhookResponse(TRUE, "valid", TRUE)]
  /\ UNCHANGED <<oauth, server, resumes, now, pending, scenario>>

\* a verified event of a type the switch has no case for
UnhandledEvent ==
  /\ pending = NoPending /\ last = Idle
  /\ \E ev \in DeletedEvents :
       /\ users' = handleWebhook(users, TRUE, "valid", "unhandled", ev, -1, FALSE, now)
       /\ last' = Summary(users, "unhandled", ev, FALSE)
  /\ UNCHANGED <<oauth, server, resumes, now, pending, scenario>>

\* the provider delivers the pending event a second time (at-least-once
\* delivery)
Redeliver ==
  /\ pending # NoPending
  /\ \E retr \in RetrieveResults :
       /\ (pending.op # "checkout_completed" \/ pending.ev.subscription = Null)
             => retr = -1
       /\ users' = handleWebhook(users, TRUE, "valid", pending.op, pending.ev,
                                 retr, FALSE, now)
       /\ last' = Retrieved(Summary(users, pending.op, pending.ev, TRUE), retr)
  /\ pending' = NoPending
  /\ UNCHANGED <<oauth, server, resumes, now, scenario>>

\* the response of the last operation is out; the provider drops the
\* pending event, which will not be delivered again
Acknowledged ==
  /\ pending # NoPending \/ last # Idle
  /\ pending' = NoPending
  /\ last' = Idle
  /\ UNCHANGED <<oauth, server, users, resumes, now, scenario>>

\* an authenticated request op of user u that leaves the stores U and R
Request(op, u, U, R, resp) ==
  /\ pending = NoPending /\ last = Idle
  /\ users' = U
  /\ resumes' = R
  /\ last' = [op |-> op, user |-> u, before |-> users[u], status |-> NoStr,
              period_end |-> Null, redelivery |-> FALSE, resp |-> resp,
              secret |-> FALSE, sig |-> NoStr, at |-> now,
              session |-> NoSession, resume |-> Null]
  /\ UNCHANGED <<oauth, server, now, pending, scenario>>

CreateCheckoutSession ==
  \E u \in DOMAIN users, planType \in {NoStr, "pro", "business", "enterprise"} :
    Request("create_session", u, createCheckoutSession(users, u, planType),
            resumes, createCheckoutSessionResponse(users, u, planType))

GetSubscriptionStatus ==
  \E u \in DOMAIN users :
    Request("payment_status", u, getSubscriptionStatus(users, u, now), resumes,
            getSubscriptionStatusResponse(users, u, now))

\* the sessions POST /payment/verify-session retrieves: checkout sessions
\* of mode 'subscription', the only mode createCheckoutSession opens
SubscriptionSessions == { s \in CheckoutSessions : s.subscription # Null }

VerifySession ==
  /\ pending = NoPending /\ last = Idle
  /\ \E u \in DOMAIN users, session \in SubscriptionSessions,
        castError \in BOOLEAN :
       /\ users' = verifyPaymentSession(users, u, session, castError, now)
       /\ last' = [Idle EXCEPT
                    !.op = "verify_session", !.user = u, !.before = users[u],
                    !.resp = verifyPaymentSessionResponse(users, u, session,
                                                          castError, now),
                    !.at = now, !.session = session]
  /\ UNCHANGED <<oauth, server, resumes, now, pending, scenario>>

Me ==
  \E u \in DOMAIN users :
    Request("auth_me", u, me(users, u, now), resumes, meResponse(users, u, now))

\* GET /auth/me as the auth routes serve it
RouterMe ==
  \E u \in DOMAIN users :
    Request("auth_me_route", u, users, resumes, routerMeResponse(users, u))

CreateResume ==
  \E u \in DOMAIN users, valid \in BOOLEAN :
    /\ Cardinality(DOMAIN resumes) < MaxResumes
    /\ Request("create_resume", u, users, createResume(users, resumes, u, valid),
               createResumeResponse(users, resumes, u, valid))

\* the status field of the summary records the provider call made:
\* cancel_at_period_end on the user's subscription
CancelSubscription ==
  /\ pending = NoPending /\ last = Idle
  /\ \E u \in DOMAIN users, throws \in BOOLEAN :
       /\ users' = cancelSubscription(users, u)
       /\ last' = [Idle EXCEPT
                    !.op = "cancel_subscription", !.user = u,
                    !.before = users[u],
                    !.status = IF cancelSubscriptionUpdate(users, u) # Null
                                 THEN "cancel_at_period_end" ELSE NoStr,
                    !.resp = cancelSubscriptionResponse(users, u, throws),
                    !.at = now]
  /\ UNCHANGED <<oauth, server, resumes, now, pending, scenario>>

MigrateResumes ==
  \E u \in DOMAIN users, isArray \in BOOLEAN,
     fresh \in 0..(MaxResumes - Cardinality(DOMAIN resumes)) :
    /\ ~isArray => fresh = 0
    /\ Request("migrate_resumes", u, users, migrateResumes(resumes, u, fresh),
               migrateResumesResponse(isArray))

\* an authenticated request op of user u on /resumes/:id that leaves the
\* resume store R
ResumeRequest(op, u, id, R, resp) ==
  /\ pending = NoPending /\ last = Idle
  /\ resumes' = R
  /\ last' = [Idle EXCEPT !.op = op, !.user = u, !.before = users[u],
                          !.resp = resp, !.at = now, !.resume = id]
  /\ UNCHANGED <<oauth, server, users, now, pending, scenario>>

DeleteResume ==
  \E u \in DOMAIN users, id \in 1..MaxResumes :
    ResumeRequest("delete_resume", u, id, deleteResume(resumes, u, id),
                  deleteResumeResponse(resumes, u, id))

GetAllResumes ==
  \E u \in DOMAIN users :
    Request("list_resumes", u, users, resumes, getAllResumesResponse(resumes, u))

GetResume ==
  \E u \in DOMAIN users, id \in 1..MaxResumes :
    ResumeRequest("get_resume", u, id, resumes, getResumeResponse(resumes, u, id))

DownloadResume ==
  \E u \in DOMAIN users, id \in 1..MaxResumes :
    ResumeRequest("download_resume", u, id, resumes,
                  downloadResumeResponse(resumes, u, id))

UpdateResume ==
  \E u \in DOMAIN users, id \in 1..MaxResumes, title \in {Null} \cup Titles :
    ResumeRequest("update_resume", u, id, updateResume(resumes, u, id, title),
                  updateResumeResponse(resumes, u, id))

\* the external identities that log in; the profile of identity g carries
\* the e-mail g
GoogleIds == UserIds

\* GET /auth/google/callback: passport runs the verify callback
Login ==
  /\ pending = NoPending /\ last = Idle
  /\ Cardinality(DOMAIN users) <= Cardinality(UserIds)
  /\ \E g \in GoogleIds :
       /\ users' = verifyCallback(users, g, g, now)
       /\ last' = [Idle EXCEPT
                    !.op = "login",
                    !.user = findByGoogleId(verifyCallback(users, g, g, now), g),
                    !.before = IF findByGoogleId(users, g) = Null THEN NoUser
                               ELSE users[findByGoogleId(users, g)],
                    !.at = now]
  /\ UNCHANGED <<oauth, server, resumes, now, pending, scenario>>

Next ==
  \/ Tick
  \/ CheckoutCompleted
  \/ SubscriptionCreated
  \/ SubscriptionUpdated
  \/ SubscriptionDeleted
  \/ PaymentSucceeded
  \/ PaymentFailed
  \/ WebhookUnverified
  \/ WebhookThrows
  \/ UnhandledEvent
  \/ Redeliver
  \/ Acknowledged
  \/ CreateCheckoutSession
  \/ GetSubscriptionStatus
  \/ Me
  \/ RouterMe

Spec == Init /\ [][Next]_vars

\* the read paths and the resume store, with checkout as the only source
\* of paid plans
NextRead ==
  \/ Tick
  \/ CheckoutCompleted
  \/ Acknowledged
  \/ GetSubscriptionStatus
  \/ Me
  \/ RouterMe
  \/ CreateResume
  \/ MigrateResumes
  \/ DeleteResume
  \/ CancelSubscription

SpecRead == Init /\ [][NextRead]_vars

\* the resume routes with the users that logged in
NextResumes ==
  \/ Login
  \/ Acknowledged
  \/ CreateResume
  \/ GetAllResumes
  \/ GetResume
  \/ DownloadResume
  \/ UpdateResume
  \/ DeleteResume

SpecResumes == Init /\ [][NextResumes]_vars

\* the requests of one session to GET /auth/google
NextOAuth ==
  \/ OAuthTick
  \/ \E r \in OAuthRequests : SessionLoad(r)
  \/ \E r \in OAuthRequests : OAuthGoogle(r)
  \/ \E r \in OAuthRequests : SessionSave(r)

SpecOAuth == Init /\ [][NextOAuth]_vars

\* the event loop runs the route of every request whose session is loaded,
\* and a response that was started ends
SpecOAuthFair ==
  /\ SpecOAuth
  /\ \A r \in OAuthRequests :
       WF_vars(OAuthGoogle(r)) /\ WF_vars(SessionSave(r))

\* the start of the server process
NextStartup ==
  \/ Boot
  \/ Listen

SpecStartup == Init /\ [][NextStartup]_vars

\* the listen attempt completes
SpecStartupFair == SpecStartup /\ WF_vars(Listen)

----------------------------------------------------------------------------
(* Out-of-order delivery: two events a and b of one subscription, a created *)
(* no later than b, reach the webhook endpoint in some order.  ref is the   *)
(* store the same two events leave when handled in the order a, b.          *)

\* the subscription whose events are compared
ScenarioSub == Min(SubIds)

\* events of subscription ScenarioSub as the provider emits them for a
\* checkout of the pro plan made by user 1, each with the time the provider
\* created it
ScenarioEvents ==
  LET stamp(op, E, R) ==
        { [op |-> op, ev |-> e, retr |-> r, created |-> c] :
            e \in E, r \in R, c \in 1..MaxNow }
  IN stamp("checkout_completed",
           { s \in CheckoutSessions : /\ s.subscription = ScenarioSub
                                      /\ s.userId = 1
                                      /\ s.plan = "pro"
                                      /\ s.payment_status = "paid" },
           {-1, MaxNow, MaxNow + 1})
     \cup
     UNION { stamp(op,
                   { e \in SubscriptionEvents :
                       /\ e.id = ScenarioSub
                       /\ e.userId = 1
                       /\ e.status \in {"active", "past_due", "canceled"}
                       /\ e.planType # "Pro"
                       /\ e.priceId = NoStr },
                   {-1}) :
             op \in {"subscription_created", "subscription_updated"} }
     \cup
     stamp("subscription_deleted",
           { e \in DeletedEvents : e.id = ScenarioSub /\ e.userId = Null }, {-1})
     \cup
     stamp("invoice_payment_succeeded",
           { e \in InvoiceEvents : e.subscription = ScenarioSub /\ e.userId = Null },
           {-1})

\* the event that arrives first, and the one that arrives second
FirstArrival(sc) == IF sc.order = "ab" THEN sc.a ELSE sc.b

SecondArrival(sc) == IF sc.order = "ab" THEN sc.b ELSE sc.a

Handle(U, e, t) == Dispatch(U, e.op, e.ev, e.retr, t)

\* the first of the two events arrives and is handled
ArriveFirst ==
  /\ scenario = NoScenario
  /\ pending = NoPending /\ last = Idle
  /\ \E a, b \in ScenarioEvents, order \in {"ab", "ba"} :
       /\ a.created <= b.created
       /\ a # b
       \* a checkout session completes once
       /\ ~(a.op = "checkout_completed" /\ b.op = "checkout_completed")
       /\ LET sc == [phase |-> "first", a |-> a, b |-> b, order |-> order,
                     start |-> users, ref |-> Handle(users, a, now)]
          IN /\ users' = Handle(users, FirstArrival(sc), now)
             /\ last' = Summary(users, FirstArrival(sc).op, FirstArrival(sc).ev, FALSE)
             /\ scenario' = sc
  /\ UNCHANGED <<oauth, server, resumes, now, pending>>

\* the second of the two events arrives and is handled
ArriveSecond ==
  /\ scenario.phase = "first"
  /\ users' = Handle(users, SecondArrival(scenario), now)
  /\ last' = Summary(users, SecondArrival(scenario).op,
                     SecondArrival(scenario).ev, FALSE)
  /\ scenario' = [scenario EXCEPT !.phase = "done",
                                  !.ref = Handle(scenario.ref, scenario.b, now)]
  /\ UNCHANGED <<oauth, server, resumes, now, pending>>

\* the store before the two events arrive is built by checkouts
Setup ==
  /\ scenario = NoScenario
  /\ (CheckoutCompleted \/ Acknowledged)

NextOrder ==
  \/ Tick
  \/ Setup
  \/ ArriveFirst
  \/ ArriveSecond

SpecOrder == Init /\ [][NextOrder]_vars


----------------------------------------------------------------------------
(* The two confirmations of one checkout: webhook and verify-session *)

\* the paid sessions createCheckoutSession opened for user u
OwnPaidSessions(u) ==
  { s \in SubscriptionSessions :
      /\ s.userId = u
      /\ s.payment_status = "paid"
      /\ s.plan = s.planType
      /\ s.plan \in PaidPlans }

\* one paid session is confirmed by both paths, in either order; the
\* results of each path alone on the same store are kept for comparison
ConfirmBoth ==
  /\ scenario = NoScenario
  /\ pending = NoPending /\ last = Idle
  /\ \E u \in DOMAIN users, order \in {"webhook_first", "verify_first"},
        castError \in BOOLEAN, retr \in RetrieveResults :
       \E session \in OwnPaidSessions(u) :
         LET W == handleCheckoutCompleted(users, session, retr, now)
             V == verifyPaymentSession(users, u, session, castError, now)
         IN /\ users' = IF order = "webhook_first"
                           THEN verifyPaymentSession(W, u, session, castError, now)
                           ELSE handleCheckoutCompleted(V, session, retr, now)
            /\ scenario' = [phase |-> "confirmed", user |-> u, order |-> order,
                            byWebhook |-> W[u], byVerify |-> V[u]]
            /\ last' = [Idle EXCEPT !.op = "confirm_both", !.user = u,
                                    !.before = users[u], !.at = now,
                                    !.session = session]
  /\ UNCHANGED <<oauth, server, resumes, now, pending>>

NextVerify ==
  \/ Tick
  \/ Setup
  \/ VerifySession
  \/ ConfirmBoth

SpecVerify == Init /\ [][NextVerify]_vars

\* the webhook of a paid session createCheckoutSession opened for a stored
\* user, whose subscription the provider reports or fails to report
PaidCheckout ==
  /\ pending = NoPending /\ last = Idle
  /\ \E u \in DOMAIN users, retr \in {-1, MaxNow + 1} :
       \E session \in OwnPaidSessions(u) :
         Deliver("checkout_completed", session, retr)

\* logins among the checkouts of the users that logged in
NextLogin ==
  \/ Tick
  \/ PaidCheckout
  \/ Acknowledged
  \/ Login

SpecLogin == Init /\ [][NextLogin]_vars

----------------------------------------------------------------------------
(* Two events racing: each handler first reads the user (an await on the   *)
(* database), then decides on the document it read, then writes.  The      *)
(* handlers of the other event may run between the read and the write.     *)

\* the handlers whose read and write are taken apart
RacingOps ==
  {"checkout_completed", "subscription_deleted", "invoice_payment_succeeded"}

RaceEvents == { e \in ScenarioEvents : e.op \in RacingOps /\ e.created = 1 }

\* the read of a handler: the user it resolves to, the document it holds
\* from then on and the store after the linking save of the lookup
RaceRead(U, e) ==
  LET user == Target(U, e.op, e.ev)
      store == IF e.op = "invoice_payment_succeeded" /\ e.ev.subscription # Null
                 THEN ResolveInvoiceUser(U, e.ev).store
                 ELSE U
  IN [user |-> user,
      doc |-> IF user = Null THEN NoUser ELSE store[user],
      store |-> store]

\* a handler that has not read yet
NoRead == [user |-> Null, doc |-> NoUser]

\* handleCheckoutCompleted reaches findByIdAndUpdate for the document it
\* read: the session is paid, tagged with a paid plan, and not a duplicate
CheckoutUpdates(doc, session, t) ==
  LET planType == IF session.plan # NoStr THEN session.plan ELSE session.planType
  IN /\ planType # NoStr
     /\ ToLower(planType) \in PaidPlans
     /\ session.payment_status = "paid"
     /\ ~ ( /\ session.subscription # Null
            /\ doc.stripeSubscriptionId = session.subscription
            /\ doc.plan = ToLower(planType)
            /\ doc.planExpiresAt # Null
            /\ doc.planExpiresAt > t )

\* the write of a handler on the store U, decided on the document read
RaceWrite(U, e, read, t) ==
  IF read.user = Null \/ read.user \notin DOMAIN U THEN U
  ELSE IF e.op = "checkout_completed"
    THEN IF CheckoutUpdates(read.doc, e.ev, t)
           THEN LET planType == IF e.ev.plan # NoStr THEN e.ev.plan
                                ELSE e.ev.planType
                IN [U EXCEPT ![read.user] =
                      [@ EXCEPT !.role = ToLower(planType),
                                !.plan = ToLower(planType),
                                !.planStartedAt = t,
                                !.planExpiresAt =
                                   IF e.ev.subscription # Null /\ e.retr > Null
                                     THEN e.retr ELSE OneMonthFrom(t),
                                !.stripeSubscriptionId =
                                   IF e.ev.subscription # Null
                                     THEN e.ev.subscription ELSE @]]
           ELSE U
  ELSE IF e.op = "subscription_deleted"
    THEN [U EXCEPT ![read.user] =
            [@ EXCEPT !.role = "free", !.plan = "free",
                      !.planExpiresAt = Null,
                      !.stripeSubscriptionId = Null]]
  ELSE IF /\ e.ev.period_end # Null
          /\ e.ev.period_end > t
          /\ (read.doc.planExpiresAt = Null
                \/ read.doc.planExpiresAt # e.ev.period_end)
    THEN [U EXCEPT ![read.user].planExpiresAt = e.ev.period_end]
  ELSE U

\* two events are delivered at once; ab and ba are the stores the two
\* serial orders leave
RaceStart ==
  /\ scenario = NoScenario
  /\ pending = NoPending /\ last = Idle
  /\ \E a, b \in RaceEvents :
       /\ a.op # b.op
       /\ scenario' = [phase |-> "race", a |-> a, b |-> b,
                       pc |-> [i \in {"a", "b"} |-> "read"],
                       read |-> [i \in {"a", "b"} |-> NoRead],
                       ab |-> Handle(Handle(users, a, now), b, now),
                       ba |-> Handle(Handle(users, b, now), a, now)]
  /\ UNCHANGED <<oauth, server, users, resumes, now, last, pending>>

\* the handler of event i reads
RaceReads(i) ==
  /\ scenario.phase = "race"
  /\ scenario.pc[i] = "read"
  /\ users' = RaceRead(users, scenario[i]).store
  /\ scenario' = [scenario EXCEPT !.pc[i] = "write",
                                  !.read[i] =
                                     [user |-> RaceRead(users, scenario[i]).user,
                                      doc |-> RaceRead(users, scenario[i]).doc]]
  /\ UNCHANGED <<oauth, server, resumes, now, last, pending>>

\* the handler of event i writes
RaceWrites(i) ==
  /\ scenario.phase = "race"
  /\ scenario.pc[i] = "write"
  /\ users' = RaceWrite(users, scenario[i], scenario.read[i], now)
  /\ scenario' = [scenario EXCEPT !.pc[i] = "done"]
  /\ UNCHANGED <<oauth, server, resumes, now, last, pending>>

\* the account's history before the two events; the race itself is over
\* within one instant
RaceSetup ==
  /\ scenario = NoScenario
  /\ (Tick \/ PaidCheckout \/ Acknowledged)

NextRace ==
  \/ RaceSetup
  \/ RaceStart
  \/ \E i \in {"a", "b"} : RaceReads(i)
  \/ \E i \in {"a", "b"} : RaceWrites(i)

SpecRace == Init /\ [][NextRace]_vars

----------------------------------------------------------------------------
(* Subscription events of a stored user with every combination of plan tag *)
(* and price id                                                            *)

\* metadata plan tags: none, the two plans, a capitalised one, an unknown one
PlanTags == {NoStr, "pro", "Pro", "business", "basic"}

\* price ids: none, the two configured ones, an unconfigured one
PriceIds == {NoStr, STRIPE_PRO_PRICE_ID, STRIPE_BUSINESS_PRICE_ID, "price_other"}

PlanEvents ==
  [ id : SubIds,
    status : ActiveStatuses \cup {"past_due", "incomplete"},
    customer : {Null},
    current_period_end : {Null, MaxNow, MaxNow + 1},
    userId : InitialUsers,
    planType : PlanTags,
    priceId : PriceIds ]

\* customer.subscription.created / customer.subscription.updated
SubscriptionPlanned ==
  /\ pending = NoPending /\ last = Idle
  /\ \E e \in PlanEvents, op \in {"subscription_created", "subscription_updated"} :
       Deliver(op, e, -1)

NextPlan ==
  \/ Tick
  \/ PaidCheckout
  \/ Acknowledged
  \/ SubscriptionPlanned

SpecPlan == Init /\ [][NextPlan]_vars

\* verify-session requests of the users that logged in, among their checkouts
NextSessions ==
  \/ Tick
  \/ Login
  \/ PaidCheckout
  \/ Acknowledged
  \/ VerifySession

SpecSessions == Init /\ [][NextSessions]_vars

----------------------------------------------------------------------------
(* A read path taken apart: GET /auth/me and GET /payment/status read the  *)
(* user, decide on the document they read and save it; an upgrade may be   *)
(* committed between the read and the save.                                *)

LazyOps == {"auth_me", "payment_status"}

\* the expiry test of the read paths on the document read
lazyExpired(doc, t) ==
  /\ doc.planExpiresAt # Null
  /\ doc.planExpiresAt < t
  /\ doc.plan # "free"

\* user.save() of the read path op: the fields the handler assigned on the
\* document it read are written to the stored record
lazySave(U, op, u, doc, t) ==
  IF u \in DOMAIN U /\ lazyExpired(doc, t)
    THEN [U EXCEPT ![u] =
           [@ EXCEPT !.role = IF op = "auth_me" THEN "free" ELSE @,
                     !.plan = "free",
                     !.planExpiresAt = Null]]
    ELSE U

\* await User.findById(req.user._id) of a read path
LazyRead ==
  /\ scenario = NoScenario
  /\ pending = NoPending /\ last = Idle
  /\ \E u \in DOMAIN users, op \in LazyOps :
       scenario' = [phase |-> "lazy", op |-> op, user |-> u, doc |-> users[u],
                    pc |-> "read", upgraded |-> FALSE]
  /\ UNCHANGED <<oauth, server, users, resumes, now, last, pending>>

\* the webhook of a paid checkout of the same user, or the user's
\* verify-session, is handled while the read path waits
LazyUpgrade ==
  /\ scenario.phase = "lazy"
  /\ scenario.pc = "read"
  /\ \E session \in OwnPaidSessions(scenario.user), retr \in {-1, MaxNow + 1},
        byWebhook, castError \in BOOLEAN :
       /\ users' = IF byWebhook
                      THEN handleCheckoutCompleted(users, session, retr, now)
                      ELSE verifyPaymentSession(users, scenario.user, session,
                                                castError, now)
       /\ users' # users
  /\ scenario' = [scenario EXCEPT !.pc = "save", !.upgraded = TRUE]
  /\ UNCHANGED <<oauth, server, resumes, now, last, pending>>

\* await user.save() of the read path
LazySave ==
  /\ scenario.phase = "lazy"
  /\ scenario.pc \in {"read", "save"}
  /\ users' = lazySave(users, scenario.op, scenario.user, scenario.doc, now)
  /\ scenario' = [scenario EXCEPT !.pc = "done"]
  /\ UNCHANGED <<oauth, server, resumes, now, last, pending>>

NextLazy ==
  \/ RaceSetup
  \/ LazyRead
  \/ LazyUpgrade
  \/ LazySave

SpecLazy == Init /\ [][NextLazy]_vars

----------------------------------------------------------------------------
(* Properties *)

\* a user record on the free plan with no paid term and no subscription
IsFreeCleared(user) ==
  /\ user.plan = "free"
  /\ user.role = "free"
  /\ user.planExpiresAt = Null
  /\ user.stripeSubscriptionId = Null

\* the user's plan is paid and its term ended before t
IsExpiredPaid(user, t) ==
  /\ user.plan # "free"
  /\ user.planExpiresAt # Null
  /\ user.planExpiresAt < t

\* C3: after a subscription_deleted event that resolved a user, that user
\* has plan = free, role = free, no planExpiresAt and no subscription id
C3_DeletedForcesFree ==
  (last.op = "subscription_deleted" /\ last.user # Null)
     => IsFreeCleared(users[last.user])

\* a subscription_deleted event downgraded a paying user whose term had
\* not ended
C3_Witness ==
  /\ last.op = "subscription_deleted"
  /\ last.user # Null
  /\ last.before.plan \in PaidPlans
  /\ last.before.planExpiresAt > now
  /\ last.before.stripeSubscriptionId # Null
  /\ IsFreeCleared(users[last.user])

\* C5: after a subscription_created or subscription_updated event with a
\* failing provider status that resolved a user, that user is free with no
\* planExpiresAt and no subscription id
C5_FailingStatusForcesFree ==
  ( /\ last.op \in {"subscription_created", "subscription_updated"}
    /\ last.status \in FailingStatuses
    /\ last.user # Null )
     => IsFreeCleared(users[last.user])

\* C6: role equals plan on every stored user
C6_RoleMirrorsPlan ==
  \A u \in DOMAIN users : users[u].role = users[u].plan

\* C7: a step that handles invoice_payment_succeeded leaves plan and role
\* of every user as they were
C7_InvoiceKeepsPlan ==
  [][ (last'.op = "invoice_payment_succeeded" /\ now' = now)
        => \A u \in DOMAIN users :
             /\ users'[u].plan = users[u].plan
             /\ users'[u].role = users[u].role ]_vars

\* an invoice extended the term of a paying user, who kept the plan
C7_Witness ==
  /\ last.op = "invoice_payment_succeeded"
  /\ last.user # Null
  /\ last.before.plan \in PaidPlans
  /\ users[last.user].plan = last.before.plan
  /\ users[last.user].role = last.before.role
  /\ users[last.user].planExpiresAt = last.period_end
  /\ users[last.user].planExpiresAt > last.before.planExpiresAt

\* C8: a step that handles invoice_payment_succeeded changes planExpiresAt
\* only if the invoice's period end is in the future and later than the
\* stored planExpiresAt
C8_InvoiceOnlyExtends ==
  [][ (last'.op = "invoice_payment_succeeded" /\ now' = now)
        => \A u \in DOMAIN users :
             users'[u].planExpiresAt # users[u].planExpiresAt
               => /\ last'.period_end > now
                  /\ last'.period_end > users[u].planExpiresAt ]_vars

\* C10: a read (GET /payment/status, GET /auth/me, POST /resumes) by a user
\* whose paid plan has expired leaves that user free with no planExpiresAt
\* and no subscription id
C10_ReadDowngradesExpired ==
  [][ ( /\ last'.op \in {"payment_status", "auth_me", "create_resume"}
        /\ now' = now
        /\ pending = NoPending
        /\ IsExpiredPaid(users[last'.user], now) )
        => IsFreeCleared(users'[last'.user]) ]_vars

\* C11: GET /auth/me by a user whose paid plan has expired leaves the stored
\* plan free and answers 200 with plan = free
C11_MeDowngradesBeforeResponding ==
  ( /\ last.op \in {"auth_me", "auth_me_route"}
    /\ last.before.plan \in PaidPlans
    /\ IsExpiredPaid(last.before, last.at) )
     => /\ users[last.user].plan = "free"
        /\ last.resp.code = 200
        /\ last.resp.plan = "free"

\* C12: every webhook request whose signature verifies is answered 200
\* with received = true, whatever the handler did
C12_VerifiedAlwaysAcknowledged ==
  (last.secret /\ last.sig = "valid")
     => /\ last.resp.code = 200
        /\ last.resp.received

\* a verified event whose handler threw was acknowledged
C12_Witness ==
  /\ last.secret /\ last.sig = "valid"
  /\ last.op \in ThrowingOps
  /\ ~last.resp.processed
  /\ last.resp.code = 200
  /\ last.resp.received

\* C13: a webhook request whose signature header is missing or invalid is
\* answered with a 4xx status, is not acknowledged and changes no user
C13_UnverifiedRejected4xx ==
  [][ (last'.op = "unverified" /\ last'.sig # "valid")
        => /\ last'.resp.code \in 400..499
           /\ ~last'.resp.received
           /\ users' = users ]_vars

\* C13 with the secret configured: a missing or invalid signature is
\* answered 400; without the secret every webhook request is answered 500;
\* in both cases the request is not acknowledged and no user changes
C13_UnverifiedRejected ==
  [][ last'.op = "unverified"
        => /\ (last'.secret /\ last'.sig # "valid") => last'.resp.code = 400
           /\ ~last'.secret => last'.resp.code = 500
           /\ ~last'.resp.received
           /\ ~last'.resp.processed
           /\ users' = users ]_vars

\* a request with an invalid signature was refused with 400
C13_Witness ==
  /\ last.op = "unverified"
  /\ last.secret
  /\ last.sig = "invalid"
  /\ last.resp.code = 400
  /\ ~last.resp.received

\* C14: a verify-session request whose session names a user other than the
\* caller is answered 403 and changes no user and no resume
C14_ForeignSessionRefused ==
  [][ ( /\ last'.op = "verify_session"
        /\ last'.session.userId # Null
        /\ last'.session.userId # last'.user )
         => /\ last'.resp.code = 403
            /\ users' = users
            /\ resumes' = resumes ]_vars

\* a free caller was refused a paid pro session of another user
C14_Witness ==
  /\ last.op = "verify_session"
  /\ last.session.userId \notin {Null, last.user}
  /\ last.session.payment_status = "paid"
  /\ last.session.planType = "pro"
  /\ last.before.plan = "free"
  /\ last.resp.code = 403
  /\ users[last.user] = last.before

\* the entitlement fields of a user record
Entitlement(user) ==
  <<user.plan, user.role, user.planExpiresAt, user.stripeSubscriptionId>>

\* C15: confirming a paid session by verify-session and by the webhook
\* gives the same plan, role, planExpiresAt and stripeSubscriptionId, and
\* confirming it by both, in either order, gives what one gives
C15_VerifyEqualsWebhook ==
  scenario.phase = "confirmed"
     => /\ Entitlement(scenario.byVerify) = Entitlement(scenario.byWebhook)
        /\ Entitlement(users[scenario.user]) = Entitlement(scenario.byWebhook)

\* C16: POST /resumes by a user whose stored plan is free and who owns
\* exactly 3 resumes is answered 4xx (403 when the body is well-formed) and
\* leaves the stored resumes as they were
C16_FreeLimitRejectsCreate ==
  [][ ( /\ last = Idle
        /\ last'.op = "create_resume"
        /\ users[last'.user].plan = "free"
        /\ countDocuments(resumes, last'.user) = FreePlanLimit )
         => /\ last'.resp.code \in {400, 403}
            /\ resumes' = resumes ]_vars

\* a free user owning 3 resumes was answered 403
C16_Witness ==
  /\ last.op = "create_resume"
  /\ last.before.plan = "free"
  /\ countDocuments(resumes, last.user) = FreePlanLimit
  /\ last.resp.code = 403

\* C17: a user whose stored plan is free owns at most 3 resumes
C17_FreeOwnsAtMostLimit ==
  \A u \in DOMAIN users :
     users[u].plan = "free" => countDocuments(resumes, u) <= FreePlanLimit

\* C18: a free user without a subscription whose paid pro checkout, naming
\* them in its metadata and carrying a subscription whose period end the
\* provider reports, is delivered gets plan and role pro, that
\* subscription's id, the reported period end as planExpiresAt and the
\* delivery time as planStartedAt, in one step that changes nothing else
C18_CheckoutUpgradesFreeUser ==
  [][ ( /\ last = Idle
        /\ last'.op = "checkout_completed"
        /\ pending'.ev.userId \in DOMAIN users
        /\ users[pending'.ev.userId].plan = "free"
        /\ users[pending'.ev.userId].stripeSubscriptionId = Null
        /\ pending'.ev.plan = "pro"
        /\ pending'.ev.payment_status = "paid"
        /\ pending'.ev.subscription # Null
        /\ last'.period_end # Null )
         => users' = [users EXCEPT ![pending'.ev.userId] =
                        [@ EXCEPT !.plan = "pro",
                                  !.role = "pro",
                                  !.planStartedAt = now,
                                  !.planExpiresAt = last'.period_end,
                                  !.stripeSubscriptionId =
                                     pending'.ev.subscription]] ]_vars

\* a free user was upgraded to pro until a period end that is not the
\* one-month fallback
C18_Witness ==
  /\ last.op = "checkout_completed"
  /\ ~last.redelivery
  /\ last.before.plan = "free"
  /\ last.before.stripeSubscriptionId = Null
  /\ last.period_end \notin {Null, OneMonthFrom(last.at)}
  /\ users[last.user].plan = "pro"
  /\ users[last.user].role = "pro"
  /\ users[last.user].planExpiresAt = last.period_end
  /\ users[last.user].stripeSubscriptionId = pending.ev.subscription

\* the event types handleWebhook has a handler for
HandledOps ==
  {"checkout_completed", "subscription_created", "subscription_updated",
   "subscription_deleted", "invoice_payment_succeeded",
   "invoice_payment_failed"}

\* C19: a delivered event of any handled type whose handler finds no user
\* leaves every user record as it was, and the handler returns normally:
\* the webhook is answered 200 with processed = true
C19_UnresolvedEventIsNoOp ==
  [][ ( /\ last = Idle
        /\ last'.op \in HandledOps
        /\ pending'.op = last'.op
        /\ last'.user = Null )
         => /\ users' = users
            /\ last'.resp.code = 200
            /\ last'.resp.processed ]_vars

\* a cancellation of a subscription no user holds, naming a user that is
\* not stored, arrived while a stored user was on a paid plan
C19_Witness ==
  /\ last.op = "subscription_deleted"
  /\ pending.op = "subscription_deleted"
  /\ last.user = Null
  /\ pending.ev.userId \notin DOMAIN users
  /\ \E u \in DOMAIN users : users[u].plan \in PaidPlans
  /\ last.resp.processed

\* C20: a delivered invoice.payment_failed leaves every user record as it
\* was
C20_PaymentFailedChangesNothing ==
  [][ (last = Idle /\ last'.op = "invoice_payment_failed")
         => users' = users ]_vars

\* C21: POST /payment/cancel-subscription by a user who has a subscription
\* asks the provider to cancel it at period end and changes no user record;
\* it answers 200, or 500 when the provider call fails
C21_CancelKeepsAccess ==
  [][ ( /\ last = Idle
        /\ last'.op = "cancel_subscription"
        /\ users[last'.user].stripeSubscriptionId # Null )
         => /\ users' = users
            /\ last'.status = "cancel_at_period_end"
            /\ last'.resp.code \in {200, 500} ]_vars

\* a paid user inside their term cancelled and kept their record
C21_Witness ==
  /\ last.op = "cancel_subscription"
  /\ last.resp.code = 200
  /\ last.status = "cancel_at_period_end"
  /\ last.before.plan \in PaidPlans
  /\ last.before.stripeSubscriptionId # Null
  /\ last.before.planExpiresAt > last.at
  /\ users[last.user] = last.before

\* the resume requests that name one resume
ResumeOps == {"get_resume", "download_resume", "update_resume", "delete_resume"}

\* C22: a resume request returns only resumes of the caller and leaves every
\* resume of another user stored as it was; when it names a resume of
\* another user it is answered 404 and the resume store is unchanged
C22_ResumesScopedToCaller ==
  [][ (last = Idle /\ last'.op \in ResumeOps \cup {"list_resumes"})
         => /\ \A id \in last'.resp.resumes :
                  id \in DOMAIN resumes /\ resumes[id].userId = last'.user
            /\ \A id \in DOMAIN resumes :
                  resumes[id].userId # last'.user
                     => id \in DOMAIN resumes' /\ resumes'[id] = resumes[id]
            /\ ( /\ last'.op \in ResumeOps
                 /\ last'.resume \in DOMAIN resumes
                 /\ resumes[last'.resume].userId # last'.user )
                   => /\ last'.resp.code = 404
                      /\ last'.resp.resumes = {}
                      /\ resumes' = resumes ]_vars

\* a user asked to change a resume another user owns and was answered 404
C22_Witness ==
  /\ last.op = "update_resume"
  /\ last.resume \in DOMAIN resumes
  /\ resumes[last.resume].userId # last.user
  /\ last.resp.code = 404
  /\ \E id \in DOMAIN resumes : resumes[id].userId = last.user

\* C23: a login with an external identity adds one user record when no
\* record holds its googleId and leaves the others as they were; otherwise
\* it adds none and changes only lastLogin of the record holding it; no
\* two records hold one googleId
C23_LoginCreatesOnceTouchesLastLogin ==
  [][ (last = Idle /\ last'.op = "login")
         => LET g == users'[last'.user].googleId
                M == {u \in DOMAIN users : users[u].googleId = g}
            IN /\ M = {} => /\ Cardinality(DOMAIN users') = Cardinality(DOMAIN users) + 1
                            /\ \A u \in DOMAIN users :
                                  u \in DOMAIN users' /\ users'[u] = users[u]
               /\ M # {} => \E u \in M : users' = [users EXCEPT ![u].lastLogin = now]
               /\ \A u, v \in DOMAIN users' :
                     users'[u].googleId = users'[v].googleId => u = v ]_vars

\* a user on a paid plan logged in again: only lastLogin moved
C23_Witness ==
  /\ last.op = "login"
  /\ last.before.plan \in PaidPlans
  /\ last.before.stripeSubscriptionId # Null
  /\ last.before.lastLogin # last.at
  /\ users[last.user] = [last.before EXCEPT !.lastLogin = last.at]
  /\ Cardinality(DOMAIN users) = Cardinality(UserIds)

\* the request started the OAuth redirect
Redirected(r) == oauth.reqs[r].pc \in {"redirecting", "done"}

\* C24: of two requests of one session that reach the route less than the
\* debounce window apart at most one starts the redirect, and a request
\* that is ignored leaves the stored initiation time as it was
C24_DebounceAdmitsOne ==
  /\ \A r1, r2 \in OAuthRequests :
        ( /\ r1 # r2
          /\ Redirected(r1) /\ Redirected(r2)
          /\ oauth.reqs[r1].at <= oauth.reqs[r2].at )
           => oauth.reqs[r2].at - oauth.reqs[r1].at >= DebounceWindow
  /\ \A r \in OAuthRequests :
        oauth.reqs[r].pc = "ignored"
           => \E q \in OAuthRequests :
                 /\ Redirected(q)
                 /\ oauth.oauthInitTime \in {Null, oauth.reqs[q].at}

\* C25: once the server listens on a port and the listening callback has
\* run, the BACKEND_URL line of an existing .env file is
\* http://localhost:port
C25_EnvFileFollowsPort ==
  (server.state = "running" /\ server.file # NoFile)
     => server.file = LocalUrl(server.port)

\* the start ended: the server listens, or the process exited
StartupEnded == server.state \in {"running", "exited"}

\* the ports after the first are the fallback ports in list order, one
\* attempt for each entry of the list
FallbacksInOrder ==
  /\ Len(server.tried) <= 1 + Len(FALLBACK_PORTS)
  /\ \A i \in 2..Len(server.tried) : server.tried[i] = FALLBACK_PORTS[i - 1]

\* the process exits after a listen error only when the code is neither
\* EACCES nor EADDRINUSE or the fallback list is used up
ExitsOnlyWhenDue ==
  (server.state = "exited" /\ server.error \in {"EACCES", "EADDRINUSE"})
     => Len(server.tried) = 1 + Len(FALLBACK_PORTS)

\* no port is tried twice
EachPortOnce ==
  \A i, j \in 1..Len(server.tried) :
     server.tried[i] = server.tried[j] => i = j

C27_RaceIsSerializable ==
  ( /\ scenario.phase = "race"
    /\ scenario.pc["a"] = "done"
    /\ scenario.pc["b"] = "done" )
     => users \in {scenario.ab, scenario.ba}

\* C28: when a subscription_created or subscription_updated event with
\* period end T was applied to the user holding subscription S, a later
\* arriving active subscription_created or subscription_updated event of S
\* with an earlier period end leaves the stored planExpiresAt at T or later
C28_PeriodEndNotLowered ==
  [][ \A u \in DOMAIN users :
        LET first == FirstArrival(scenario)
            second == SecondArrival(scenario)
            SubOps == {"subscription_created", "subscription_updated"}
        IN ( /\ scenario.phase = "first" /\ scenario'.phase = "done"
             /\ first.op \in SubOps
             /\ first.ev.current_period_end # Null
             /\ users[u].stripeSubscriptionId = first.ev.id
             /\ users[u].planExpiresAt = first.ev.current_period_end
             /\ second.op \in SubOps
             /\ second.ev.id = first.ev.id
             /\ second.ev.status \in ActiveStatuses
             /\ second.ev.current_period_end # Null
             /\ second.ev.current_period_end < first.ev.current_period_end )
             => /\ users'[u].planExpiresAt # Null
                /\ users'[u].planExpiresAt >= users[u].planExpiresAt ]_vars

C30_CustomerMatchApplied ==
  [][ \A u \in DOMAIN users :
        ( /\ last = Idle
          /\ last'.op \in {"subscription_created", "subscription_updated"}
          /\ last'.resp.processed
          /\ pending'.op = last'.op
          /\ pending'.ev.status \in ActiveStatuses
          /\ findBySubscription(users, pending'.ev.id) = Null
          /\ (pending'.ev.userId = Null
                \/ findById(users, pending'.ev.userId) = Null)
          /\ pending'.ev.customer # Null
          /\ findByCustomer(users, pending'.ev.customer) = u )
           => users'[u].stripeSubscriptionId = pending'.ev.id ]_vars

\* the plan an event names: its metadata tag in lower case when it has one,
\* else the plan whose configured price id is the event's price id
NamedPlan(ev) ==
  IF ev.planType # NoStr THEN ToLower(ev.planType)
  ELSE IF ev.priceId = STRIPE_PRO_PRICE_ID THEN "pro"
  ELSE IF ev.priceId = STRIPE_BUSINESS_PRICE_ID THEN "business"
  ELSE NoStr

\* C31: an active or trialing subscription_created / subscription_updated
\* event applied to a user sets plan and role to the plan of its metadata
\* tag when it has a tag, else to the plan its price id is configured for;
\* when that gives no paid plan, plan and role stay as they were; in both
\* cases planExpiresAt is the event's period end when it carries one
C31_PlanFromTagElsePrice ==
  [][ ( /\ last = Idle
        /\ last'.op \in {"subscription_created", "subscription_updated"}
        /\ last'.resp.processed
        /\ pending'.op = last'.op
        /\ pending'.ev.status \in ActiveStatuses
        /\ last'.user # Null )
         => LET ev == pending'.ev
                after == users'[last'.user]
            IN /\ IF NamedPlan(ev) \in PaidPlans
                    THEN after.plan = NamedPlan(ev) /\ after.role = NamedPlan(ev)
                    ELSE /\ after.plan = last'.before.plan
                         /\ after.role = last'.before.role
               /\ ev.current_period_end # Null
                    => after.planExpiresAt = ev.current_period_end ]_vars

\* an active event without a tag and with an unconfigured price id reached a
\* paying user and refreshed the expiry only; another with tag and price id
\* naming different plans would be decided by the tag
C31_Witness ==
  /\ last.op \in {"subscription_created", "subscription_updated"}
  /\ last.resp.processed
  /\ pending.op = last.op
  /\ pending.ev.status \in ActiveStatuses
  /\ last.user # Null
  /\ pending.ev.planType = NoStr
  /\ pending.ev.priceId = "price_other"
  /\ pending.ev.current_period_end # Null
  /\ last.before.plan \in PaidPlans
  /\ last.before.planExpiresAt # pending.ev.current_period_end
  /\ users[last.user].plan = last.before.plan
  /\ users[last.user].planExpiresAt = pending.ev.current_period_end

\* C32: handling a checkout_completed event whose payment_status is not
\* paid leaves every field of every user record as it was
C32_UnpaidCheckoutNoOp ==
  [][ ( /\ last'.op = "checkout_completed"
        /\ last' # last
        /\ pending'.op = "checkout_completed"
        /\ pending'.ev.payment_status # "paid" )
         => users' = users ]_vars

\* an unpaid checkout that names a stored free user and a paid plan was
\* handled and the user is still free
C32_Witness ==
  /\ last.op = "checkout_completed"
  /\ last.resp.processed
  /\ pending.op = "checkout_completed"
  /\ pending.ev.payment_status = "unpaid"
  /\ pending.ev.plan \in PaidPlans
  /\ last.user # Null
  /\ last.before.plan = "free"
  /\ users[last.user] = last.before

\* the plan tag handleCheckoutCompleted reads: metadata plan, else planType
PlanTag(session) ==
  IF session.plan # NoStr THEN session.plan ELSE session.planType

\* C33: handling a checkout_completed event whose plan tag is missing or,
\* in lower case, is neither pro nor business leaves every user record as
\* it was
C33_UnknownPlanCheckoutNoOp ==
  [][ ( /\ last'.op = "checkout_completed"
        /\ last' # last
        /\ pending'.op = "checkout_completed"
        /\ (PlanTag(pending'.ev) = NoStr
              \/ ToLower(PlanTag(pending'.ev)) \notin PaidPlans) )
         => users' = users ]_vars

\* a paid checkout without a plan tag, and one tagged with an unknown plan,
\* reached a stored user and changed nothing
C33_Witness ==
  /\ last.op = "checkout_completed"
  /\ last.resp.processed
  /\ pending.op = "checkout_completed"
  /\ pending.ev.payment_status = "paid"
  /\ PlanTag(pending.ev) = NoStr
  /\ last.user # Null
  /\ users[last.user] = last.before

\* C34: hasActiveSubscription in the body of GET /payment/status is true
\* exactly when the record stored once the request is answered has a plan
\* other than free and a planExpiresAt that is null or later than now
C34_ActiveIffPaidAndUnexpired ==
  [][ ( /\ last = Idle
        /\ last'.op = "payment_status"
        /\ last'.resp.code = 200 )
         => LET stored == users'[last'.user]
            IN last'.resp.hasActiveSubscription
                 <=> ( /\ stored.plan # "free"
                       /\ (stored.planExpiresAt = Null
                             \/ stored.planExpiresAt > now) ) ]_vars

\* a paying user whose plan had run out asked for the status, was
\* downgraded on the way and was told there is no active subscription
C34_Witness ==
  /\ last.op = "payment_status"
  /\ last.resp.code = 200
  /\ last.before.plan \in PaidPlans
  /\ last.before.planExpiresAt # Null
  /\ last.before.planExpiresAt < last.at
  /\ users[last.user].plan = "free"
  /\ ~last.resp.hasActiveSubscription

\* C35: a verify-session request leaves the record of every user other than
\* the caller as it was, and adds or removes no user
C35_VerifyTouchesCallerOnly ==
  [][ ( /\ last = Idle
        /\ last'.op = "verify_session" )
         => /\ DOMAIN users' = DOMAIN users
            /\ \A v \in DOMAIN users \ {last'.user} : users'[v] = users[v] ]_vars

\* with two users stored, the caller verified a paid session that names no
\* user and was paid under the other user's e-mail, and was upgraded
C35_Witness ==
  /\ last.op = "verify_session"
  /\ last.resp.code = 200
  /\ Cardinality(DOMAIN users) = 2
  /\ last.session.userId = Null
  /\ last.session.email # Null
  /\ findByEmail(users, last.session.email) \notin {Null, last.user}
  /\ last.before.plan = "free"
  /\ users[last.user].plan \in PaidPlans

\* C36: a step that handles a subscription_deleted event leaves every user
\* who holds a subscription id other than the event's as they were
C36_DeletedSparesOtherSubscription ==
  [][ \A u \in DOMAIN users :
        ( /\ last = Idle
          /\ last'.op = "subscription_deleted"
          /\ pending'.op = "subscription_deleted"
          /\ users[u].stripeSubscriptionId # Null
          /\ users[u].stripeSubscriptionId # pending'.ev.id )
           => users'[u] = users[u] ]_vars

\* C37: when an upgrade to an unexpired paid plan was committed between the
\* read and the save of a read path, the user has a paid plan and a
\* planExpiresAt once the read path has finished
C37_LazyDowngradeKeepsUpgrade ==
  ( /\ scenario.phase = "lazy"
    /\ scenario.pc = "done"
    /\ scenario.upgraded )
     => /\ users[scenario.user].plan # "free"
        /\ users[scenario.user].planExpiresAt # Null

\* C38: every request whose session was loaded for the route is in the end
\* answered: its response was started and has ended
C38_EveryRequestAnswered ==
  \A r \in OAuthRequests :
    (oauth.reqs[r].pc = "loaded") ~> (oauth.reqs[r].pc = "done")























\* a step in which the provider's second delivery of an event is handled
IsRedelivery(op) ==
  /\ pending # NoPending
  /\ pending.op = op
  /\ last'.redelivery

\* C2: the second handling of a checkout_completed event leaves every field
\* of every user record as the first handling left it
C2_CheckoutRedeliveryNoOp ==
  [][ IsRedelivery("checkout_completed") => users' = users ]_vars

\* C9: the second handling of a subscription_created, subscription_updated,
\* subscription_deleted or invoice_payment_succeeded event leaves every
\* user record as the first handling left it
C9_RedeliveryTolerated ==
  [][ \A op \in {"subscription_created", "subscription_updated",
                 "subscription_deleted", "invoice_payment_succeeded"} :
        IsRedelivery(op) => users' = users ]_vars

\* the arrival order of the two events agrees with their timestamps
ArrivalConsistent(sc) == sc.order = "ab" \/ sc.a.created = sc.b.created

\* C1: once both events are handled, in an arrival order consistent with
\* their timestamps, every user has the plan and planExpiresAt that
\* handling them in timestamp order gives
C1_ArrivalOrderIrrelevant ==
  (scenario.phase = "done" /\ ArrivalConsistent(scenario))
     => \A u \in DOMAIN users :
          /\ users[u].plan = scenario.ref[u].plan
          /\ users[u].planExpiresAt = scenario.ref[u].planExpiresAt

\* the stale event a carries no period end newer than the one stored before
\* the failing event b
NoFreshPeriodEnd(sc, u) ==
  \/ sc.a.ev.current_period_end = Null
  \/ /\ sc.start[u].planExpiresAt # Null
     /\ sc.a.ev.current_period_end <= sc.start[u].planExpiresAt

\* C4: when a failing-status update b of a paying user's subscription has
\* forced the user to free and the older active event a of the same
\* subscription arrives after it without a fresh period end, the user stays
\* free with no subscription id
C4_StaleActiveDoesNotResurrect ==
  \A u \in DOMAIN users :
    ( /\ scenario.phase = "done"
      /\ scenario.order = "ba"
      /\ scenario.a.created < scenario.b.created
      /\ scenario.b.op = "subscription_updated"
      /\ scenario.b.ev.status \in FailingStatuses
      /\ Target(scenario.start, scenario.b.op, scenario.b.ev) = u
      /\ scenario.start[u].plan \in PaidPlans
      /\ scenario.start[u].stripeSubscriptionId = scenario.b.ev.id
      /\ scenario.a.op \in {"subscription_created", "subscription_updated"}
      /\ scenario.a.ev.status = "active"
      /\ scenario.a.ev.id = scenario.b.ev.id
      /\ NoFreshPeriodEnd(scenario, u) )
      => /\ users[u].plan = "free"
         /\ users[u].stripeSubscriptionId = Null

====
